---- MODULE Spec2Model ----
(***************************************************************************)
(* A model of pyschwab's OAuth token lifecycle (pyschwab/auth.py): the     *)
(* Token store, the persisted token file, and the Authorizer that loads,   *)
(* evaluates and renews the tokens while it is constructed.                *)
(*                                                                         *)
(* Time is scaled: one clock unit stands for a stretch of seconds, the     *)
(* TTLs are small numbers of units.  Opaque strings are numbered: the      *)
(* n-th response of the token endpoint carries the access, refresh and id  *)
(* tokens numbered n; a hand-made file carries number 0.  A Python dict (a *)
(* JSON object) is a record with the set `has` of the keys present and one *)
(* field per key.                                                          *)
(***************************************************************************)
EXTENDS Integers, Sequences, FiniteSets, TLC

VARIABLES
    clock,      \* datetime.now(), in units
    file,       \* the file at token_path
    issued,     \* number of responses the token endpoint has produced
    live,       \* the managers that exist in this run
    pc,         \* per manager: where its constructor stands
    tok,        \* per manager: the fields of its Token
    inTry,      \* per manager: control is inside _load_tokens' try block
    req,        \* per manager: the token-endpoint request in flight
    pending,    \* per manager: output_data of a save whose file is open
    err,        \* per manager: the exception the constructor raised
    runs,       \* per manager: constructions so far
    log,        \* per manager: the events of the current construction
    loadKind,   \* per manager: what _load_tokens found
    loaded,     \* per manager: the file as it was when read
    loadedAt,   \* per manager: the clock when it was read
    resp,       \* per manager: the last dict the token endpoint returned
    saveNow,    \* per manager: `now` of the last Token.save that reached it
    issuedAt,   \* per manager: when the access token it holds was issued
    ret,        \* per manager: the last result of get_access_token()
    gotUrl,     \* per manager: `url` in _update_refresh_token, until it is used
    user_input, \* per manager: the collector its constructor installed
    inputCfg,   \* per manager: `config` of the _get_input about to run
    args,       \* the arguments of the library call under study
    result,     \* what that call returned or raised
    api,        \* the fields of the TradingApi object
    broker,     \* the accounts the brokerage reports for the user
    wire        \* the trading requests sent so far

vars == << clock, file, issued, live, pc, tok, inTry, req, pending, err, runs,
           log, loadKind, loaded, loadedAt, resp, saveNow, issuedAt, ret,
           gotUrl, user_input, inputCfg, args, result, api, broker, wire >>

\* The state of the token lifecycle, and the state of the other library calls.
authVars == << clock, file, issued, live, pc, tok, inTry, req, pending, err,
               runs, log, loadKind, loaded, loadedAt, resp, saveNow, issuedAt,
               ret, gotUrl, user_input, inputCfg >>
apiVars == << api, broker, wire >>
callVars == << args, result, api, broker, wire >>

-----------------------------------------------------------------------------
(* Bounds of the model *)

MaxClock == 4
MaxStamp == 1
MaxConstruct == 2
MaxUrlLen == 3

(* Program constants, scaled to clock units *)

\* Token.__init__: refresh_token_expires_in_sec default, 7 * 24 * 60 * 60
RefreshTTL == 3
\* Token.__init__: access_token_expires_in_sec default, 1800
DefaultAccessTTL == 2
\* Python's None, for a timestamp that is not set
None == -1

Procs == {1, 2}

-----------------------------------------------------------------------------
(* Dicts, ISO-8601 strings *)

\* An ISO-8601 string: the instant it denotes and the way it is written.
\* "T" is what datetime.isoformat() writes, "sp" another spelling that
\* datetime.fromisoformat() reads as the same instant, "bad" does not parse.
IsoForms == {"T", "sp", "bad"}

isoformat(t) == [t |-> t, form |-> "T"]

\* datetime.fromisoformat: the instant, or ValueError
fromisoformat(s) ==
    IF s.form = "bad" THEN [exc |-> "ValueError", t |-> None]
    ELSE [exc |-> "none", t |-> s.t]

FileKeys == {"refresh_token", "access_token", "id_token",
             "access_token_expires_in_sec",
             "refresh_token_updated", "access_token_updated"}

ResponseKeys == {"access_token", "refresh_token", "id_token", "expires_in"}

\* An opaque token string: its kind and its number; NoToken is Python's
\* None in a token field.
Str(kind, n) == [kind |-> kind, n |-> n]
NoToken == Str("None", 0)

NoStamp == isoformat(0)

\* The dict with no key; the fields of absent keys keep these values.
EmptyDict ==
    [has |-> {}, refresh_token |-> NoToken, access_token |-> NoToken,
     id_token |-> NoToken, access_token_expires_in_sec |-> 0, expires_in |-> 0,
     refresh_token_updated |-> NoStamp, access_token_updated |-> NoStamp]

\* The TTL values a record or a response may carry
ExpiresInSet == {1, 2}

-----------------------------------------------------------------------------
(* class Token *)

\* Token.__init__: every credential None, the TTLs from the configuration
TokenInit ==
    [refresh_token |-> NoToken, refresh_token_updated |-> None,
     access_token |-> NoToken, access_token_updated |-> None,
     id_token |-> NoToken, access_token_expires_in_sec |-> DefaultAccessTTL]

\* Expired with one more second of grace (> ttl + 1 for > ttl)
ExpiredLate(updated, now, ttl) == now - updated > ttl + 1

\* Expired with the boundary counted as stale (>= for >)
ExpiredAtBoundary(updated, now, ttl) == now - updated >= ttl

\* The comparison of is_refresh_token_expired and is_access_token_expired:
\* (now - updated).total_seconds() > expires_in_sec
Expired(updated, now, ttl) == now - updated > ttl

\* Token.is_refresh_token_expired; datetime - None is a TypeError
is_refresh_token_expired(t, now) ==
    IF t.refresh_token_updated = None THEN [exc |-> "TypeError", val |-> FALSE]
    ELSE [exc |-> "none",
          val |-> Expired(t.refresh_token_updated, now, RefreshTTL)]

\* Token.is_access_token_expired
is_access_token_expired(t, now) ==
    IF t.access_token_updated = None THEN [exc |-> "TypeError", val |-> FALSE]
    ELSE [exc |-> "none",
          val |-> Expired(t.access_token_updated, now,
                          t.access_token_expires_in_sec)]

\* Token.update: the assignments in their order; the first key that is
\* absent raises KeyError and leaves the assignments made before it in place.
\* A timestamp key that is absent leaves the timestamp as it was.
TokenUpdate(t, data) ==
    IF "refresh_token" \notin data.has THEN [exc |-> "KeyError", tok |-> t]
    ELSE LET t1 == [t EXCEPT !.refresh_token = data.refresh_token] IN
    IF "access_token" \notin data.has THEN [exc |-> "KeyError", tok |-> t1]
    ELSE LET t2 == [t1 EXCEPT !.access_token = data.access_token] IN
    IF "id_token" \notin data.has THEN [exc |-> "KeyError", tok |-> t2]
    ELSE LET t3 == [t2 EXCEPT !.id_token = data.id_token] IN
    IF "access_token_expires_in_sec" \notin data.has
    THEN [exc |-> "KeyError", tok |-> t3]
    ELSE LET t4 == [t3 EXCEPT !.access_token_expires_in_sec =
                                  data.access_token_expires_in_sec]
             r  == IF "refresh_token_updated" \in data.has
                   THEN fromisoformat(data.refresh_token_updated)
                   ELSE [exc |-> "none", t |-> t4.refresh_token_updated]
         IN
    IF r.exc # "none" THEN [exc |-> r.exc, tok |-> t4]
    ELSE LET t5 == [t4 EXCEPT !.refresh_token_updated = r.t]
             a  == IF "access_token_updated" \in data.has
                   THEN fromisoformat(data.access_token_updated)
                   ELSE [exc |-> "none", t |-> t5.access_token_updated]
         IN
    IF a.exc # "none" THEN [exc |-> a.exc, tok |-> t5]
    ELSE [exc |-> "none", tok |-> [t5 EXCEPT !.access_token_updated = a.t]]

\* Token.save, line 44: response_data.pop('expires_in') under its new name
RenameExpiresIn(response_data) ==
    [response_data EXCEPT
        !.has = (@ \ {"expires_in"}) \cup {"access_token_expires_in_sec"},
        !.access_token_expires_in_sec = response_data.expires_in,
        !.expires_in = 0]

\* OutputData that stamps the refresh token at every save
OutputDataResetsRefresh(t, now, is_refresh_token) ==
    [has |-> FileKeys,
     refresh_token |-> t.refresh_token,
     access_token |-> t.access_token,
     id_token |-> t.id_token,
     refresh_token_updated |-> isoformat(now),
     access_token_updated |-> isoformat(now),
     access_token_expires_in_sec |-> t.access_token_expires_in_sec,
     expires_in |-> 0]

\* OutputData that never stamps the refresh token
OutputDataKeepsRefresh(t, now, is_refresh_token) ==
    [has |-> FileKeys,
     refresh_token |-> t.refresh_token,
     access_token |-> t.access_token,
     id_token |-> t.id_token,
     refresh_token_updated |-> isoformat(t.refresh_token_updated),
     access_token_updated |-> isoformat(now),
     access_token_expires_in_sec |-> t.access_token_expires_in_sec,
     expires_in |-> 0]

\* Token.save, lines 47-54: output_data, from the store after update
OutputData(t, now, is_refresh_token) ==
    [has |-> FileKeys,
     refresh_token |-> t.refresh_token,
     access_token |-> t.access_token,
     id_token |-> t.id_token,
     refresh_token_updated |->
        IF is_refresh_token THEN isoformat(now)
        ELSE isoformat(t.refresh_token_updated),
     access_token_updated |-> isoformat(now),
     access_token_expires_in_sec |-> t.access_token_expires_in_sec,
     expires_in |-> 0]

\* TokenSave that goes on to write whatever update has left
TokenSaveUnchecked(t, response_data, is_refresh_token, now) ==
    LET u == TokenUpdate(t, RenameExpiresIn(response_data))
    IN  [exc |-> "none", tok |-> u.tok,
         out |-> OutputData(u.tok, now, is_refresh_token)]

\* Token.save up to the open of the file: the store as update leaves it, the
\* exception raised if any, and the output_data to be dumped.
TokenSave(t, response_data, is_refresh_token, now) ==
    IF "expires_in" \notin response_data.has
    THEN [exc |-> "KeyError", tok |-> t, out |-> EmptyDict]
    ELSE LET u == TokenUpdate(t, RenameExpiresIn(response_data)) IN
    IF u.exc # "none" THEN [exc |-> u.exc, tok |-> u.tok, out |-> EmptyDict]
    ELSE IF ~is_refresh_token /\ u.tok.refresh_token_updated = None
    THEN [exc |-> "AttributeError", tok |-> u.tok, out |-> EmptyDict]
    ELSE [exc |-> "none", tok |-> u.tok,
          out |-> OutputData(u.tok, now, is_refresh_token)]

-----------------------------------------------------------------------------
(* The consent URL and the token endpoint *)

\* A URL is a sequence of pieces: the two markers and other text.
UrlAlphabet == {"code=", "%40&", "a"}

Urls == UNION {[1..n -> UrlAlphabet] : n \in 0..MaxUrlLen}

\* No URL: the consent collector has not returned
NoUrl == << "none" >>

\* str.index: the place of the first occurrence of a piece, 0 when absent
\* (where Python raises ValueError)
Index(url, piece) ==
    IF \E i \in 1..Len(url) : url[i] = piece
    THEN CHOOSE i \in 1..Len(url) :
            url[i] = piece /\ \A j \in 1..(i - 1) : url[j] # piece
    ELSE 0

\* ExtractCode that cuts from the marker itself (start without the
\* marker's length added)
ExtractCodeFromMarker(url) ==
    LET s == Index(url, "code=")
        e == Index(url, "%40&")
    IN  IF s = 0 \/ e = 0 THEN [exc |-> "ValueError", code |-> << >>]
        ELSE [exc |-> "none", code |-> SubSeq(url, s, e - 1) \o << "@" >>]

\* ExtractCode with str.find for str.index: an absent end marker cuts
\* before the last piece instead of raising
ExtractCodeLenient(url) ==
    LET s == Index(url, "code=")
        e == IF Index(url, "%40&") = 0 THEN Len(url) ELSE Index(url, "%40&")
    IN  IF s = 0 THEN [exc |-> "ValueError", code |-> << >>]
        ELSE [exc |-> "none", code |-> SubSeq(url, s + 1, e - 1) \o << "@" >>]

\* _update_refresh_token, lines 106-109: url[start:end] with "@" appended;
\* a slice whose end lies before its start is empty.
ExtractCode(url) ==
    LET s == Index(url, "code=")
        e == Index(url, "%40&")
    IN  IF s = 0 \/ e = 0 THEN [exc |-> "ValueError", code |-> << >>]
        ELSE [exc |-> "none", code |-> SubSeq(url, s + 1, e - 1) \o << "@" >>]

NoRequest ==
    [grant_type |-> "none", code |-> << >>, refresh_token |-> NoToken,
     redirect_uri |-> "none"]

\* FetchTokenData that leaves redirect_uri out of the authorization_code form
FetchTokenDataNoRedirect(grant_type, code) ==
    IF grant_type = "authorization_code"
    THEN [exc |-> "none",
          data |-> [grant_type |-> "authorization_code", code |-> code,
                    refresh_token |-> NoToken, redirect_uri |-> "none"]]
    ELSE IF grant_type = "refresh_token"
    THEN [exc |-> "none",
          data |-> [grant_type |-> "refresh_token", code |-> << >>,
                    refresh_token |-> code, redirect_uri |-> "none"]]
    ELSE [exc |-> "ValueError", data |-> NoRequest]

\* _fetch_token, lines 122-127: the form data by grant type
FetchTokenData(grant_type, code) ==
    IF grant_type = "authorization_code"
    THEN [exc |-> "none",
          data |-> [grant_type |-> "authorization_code", code |-> code,
                    refresh_token |-> NoToken, redirect_uri |-> "callback_url"]]
    ELSE IF grant_type = "refresh_token"
    THEN [exc |-> "none",
          data |-> [grant_type |-> "refresh_token", code |-> << >>,
                    refresh_token |-> code, redirect_uri |-> "none"]]
    ELSE [exc |-> "ValueError", data |-> NoRequest]

\* What requests.request may do: fail to connect, fail otherwise, or answer
Failures == {"none", "ConnectionError", "RequestException"}
Statuses == {200, 400, 500}

\* Request that takes every HTTP error for a client error
RequestAllClientErrors(failure, status) ==
    IF failure = "ConnectionError" THEN "InternetConnectionException"
    ELSE IF failure = "RequestException" THEN "BrokerAPIException"
    ELSE IF 400 <= status /\ status < 600 THEN "BadRequestException"
    ELSE "response"

\* utils.request: "response" when the response is returned, else the
\* exception raised
Request(failure, status) ==
    IF failure = "ConnectionError" THEN "InternetConnectionException"
    ELSE IF failure = "RequestException" THEN "BrokerAPIException"
    ELSE IF 400 <= status /\ status < 600
    THEN IF 400 <= status /\ status < 500 THEN "BadRequestException"
         ELSE IF 500 <= status /\ status < 600 THEN "ServerErrorException"
         ELSE "HTTPErrorException"
    ELSE "response"

\* The JSON objects the n-th answer of the token endpoint may be: complete,
\* or lacking one of the required keys
Responses(n) ==
    { [EmptyDict EXCEPT
          !.has = ResponseKeys \ missing,
          !.access_token = IF "access_token" \in missing THEN NoToken
                           ELSE Str("access", n),
          !.refresh_token = IF "refresh_token" \in missing THEN NoToken
                            ELSE Str("refresh", n),
          !.id_token = IF "id_token" \in missing THEN NoToken
                       ELSE Str("id", n),
          !.expires_in = IF "expires_in" \in missing THEN 0 ELSE e]
      : missing \in {{}} \cup {{k} : k \in ResponseKeys}, e \in ExpiresInSet }

-----------------------------------------------------------------------------
(* The token file *)

File(kind, data) == [kind |-> kind, data |-> data]

\* No file at token_path; a file that is not JSON; a file just opened for
\* writing, still empty.
MissingFile == File("missing", EmptyDict)
GarbageFile == File("garbage", EmptyDict)
TruncatedFile == File("truncated", EmptyDict)

\* The timestamps a file found at start may hold: any instant as isoformat
\* writes it, and instant 0 in another spelling and misspelt
Stamps ==
    {isoformat(t) : t \in 0..MaxStamp}
        \cup {[t |-> 0, form |-> "sp"], [t |-> 0, form |-> "bad"]}

\* The shapes of the records a file found at start may hold: every key with
\* any TTL and timestamps, or all keys but one with the first TTL and the
\* timestamps of instant 0
InitShapes ==
    { s \in (({{}} \cup {{k} : k \in FileKeys}) \X ExpiresInSet
                \X Stamps \X Stamps) :
        s[1] = {} \/ (s[2] = 1 /\ s[3] = NoStamp /\ s[4] = NoStamp) }

\* The record of a shape
InitRecord(missing, e, r, a) ==
    [EmptyDict EXCEPT
        !.has = FileKeys \ missing,
        !.refresh_token = IF "refresh_token" \in missing THEN NoToken
                          ELSE Str("refresh", 0),
        !.access_token = IF "access_token" \in missing THEN NoToken
                         ELSE Str("access", 0),
        !.id_token = IF "id_token" \in missing THEN NoToken
                     ELSE Str("id", 0),
        !.access_token_expires_in_sec =
            IF "access_token_expires_in_sec" \in missing THEN 0 ELSE e,
        !.refresh_token_updated =
            IF "refresh_token_updated" \in missing THEN NoStamp ELSE r,
        !.access_token_updated =
            IF "access_token_updated" \in missing THEN NoStamp ELSE a]

\* The records a file found at start may hold
InitRecords == { InitRecord(s[1], s[2], s[3], s[4]) : s \in InitShapes }

InitFiles ==
    {MissingFile, GarbageFile} \cup {File("json", d) : d \in InitRecords}

-----------------------------------------------------------------------------
(* class Authorizer *)

\* InputRegistry._registry: the names registered
Registry == {"terminal"}

\* The input types a configuration may name
InputTypes == {"terminal", "gui"}

\* The 'input' section of a configuration: a type named, or no 'type' key
InputConfigs == InputTypes \cup {"absent"}

\* _get_input, line 72: config.get('type', 'terminal')
input_type(config) == IF config = "absent" THEN "terminal" ELSE config

\* get_input that hands out a collector for every name
get_inputAnyName(name) == "none"

\* InputRegistry.get_input
get_input(name) == IF name \in Registry THEN "none" ELSE "ValueError"

\* Authorizer._update_token: which branch is taken, or the TypeError of a
\* timestamp that is None
UpdateToken(t, now) ==
    LET r == is_refresh_token_expired(t, now)
        a == is_access_token_expired(t, now)
    IN  IF r.exc # "none" THEN r.exc
        ELSE IF r.val THEN "refresh_stale"
        ELSE IF a.exc # "none" THEN a.exc
        ELSE IF a.val THEN "access_stale"
        ELSE "fresh"

\* An except clause that names json.JSONDecodeError alone
CaughtJsonOnly == {"JSONDecodeError"}

\* The exceptions _load_tokens' except clause catches
Caught == {"FileNotFoundError", "JSONDecodeError"}

\* Authorizer._load_tokens up to its first wait or its end: what was found
\* (kind), the store, where control goes next and the exception raised.
\*   next = "consent": _update_refresh_token waits for the consent collector
\*   next = "fetch":   _update_access_token waits for the token endpoint
LoadTokens(f, now) ==
    IF f.kind # "json"
    THEN LET e == IF f.kind = "missing" THEN "FileNotFoundError"
                  ELSE "JSONDecodeError"
             k == IF f.kind = "missing" THEN "nofile" ELSE "badjson"
         IN  IF e \in Caught
             THEN [kind |-> k, tok |-> TokenInit, next |-> "consent",
                   inTry |-> FALSE, exc |-> "none"]
             ELSE [kind |-> k, tok |-> TokenInit, next |-> "raised",
                   inTry |-> FALSE, exc |-> e]
    ELSE LET u == TokenUpdate(TokenInit, f.data)
             d == UpdateToken(u.tok, now)
         IN
    IF u.exc # "none"
    THEN [kind |-> "incomplete", tok |-> u.tok, next |-> "raised",
          inTry |-> TRUE, exc |-> u.exc]
    ELSE IF d = "refresh_stale"
    THEN [kind |-> d, tok |-> u.tok, next |-> "consent",
          inTry |-> TRUE, exc |-> "none"]
    ELSE IF d = "access_stale"
    THEN [kind |-> d, tok |-> u.tok, next |-> "fetch",
          inTry |-> TRUE, exc |-> "none"]
    ELSE IF d = "fresh"
    THEN [kind |-> d, tok |-> u.tok, next |-> "done",
          inTry |-> TRUE, exc |-> "none"]
    ELSE [kind |-> "incomplete", tok |-> u.tok, next |-> "raised",
          inTry |-> TRUE, exc |-> d]

\* The event logged when control reaches `next`
Event(next) ==
    IF next = "consent" THEN << "consent" >>
    ELSE IF next = "fetch" THEN << "refresh_token" >>
    ELSE << >>

NoRet == [called |-> FALSE, token |-> NoToken, stale |-> FALSE]

\* No call of the rest of the library is under way.
NoCall == [fn |-> "none"]

\* No TradingApi has been constructed and nothing was sent for one.
NoTradingApi ==
    /\ api = [constructed |-> FALSE]
    /\ broker = [numbers |-> {}]
    /\ wire = [sent |-> 0]

\* No manager has been constructed and the token endpoint has answered nothing.
NoManager ==
    /\ issued = 0
    /\ pc = [m \in Procs |-> "idle"]
    /\ tok = [m \in Procs |-> TokenInit]
    /\ inTry = [m \in Procs |-> FALSE]
    /\ req = [m \in Procs |-> NoRequest]
    /\ pending = [m \in Procs |-> EmptyDict]
    /\ err = [m \in Procs |-> "none"]
    /\ runs = [m \in Procs |-> 0]
    /\ log = [m \in Procs |-> << >>]
    /\ loadKind = [m \in Procs |-> "none"]
    /\ loaded = [m \in Procs |-> MissingFile]
    /\ loadedAt = [m \in Procs |-> None]
    /\ resp = [m \in Procs |-> EmptyDict]
    /\ saveNow = [m \in Procs |-> None]
    /\ issuedAt = [m \in Procs |-> None]
    /\ ret = [m \in Procs |-> NoRet]
    /\ gotUrl = [m \in Procs |-> NoUrl]
    /\ user_input = [m \in Procs |-> "none"]
    /\ inputCfg = [m \in Procs |-> "none"]

Init ==
    /\ clock = MaxStamp
    /\ file \in InitFiles
    /\ live = {1}
    /\ NoManager
    /\ args = NoCall
    /\ result = NoCall
    /\ NoTradingApi

\* datetime.now() moves on.  No clock is read between the collector's return
\* and the use of its URL, nor between the start of __init__ and _get_input,
\* so time that passes there is taken to pass before.
Tick ==
    /\ clock < MaxClock
    /\ \A m \in live : gotUrl[m] = NoUrl /\ pc[m] # "init"
    /\ clock' = clock + 1
    /\ UNCHANGED << file, issued, live, pc, tok, inTry, req, pending, err,
                    runs, log, loadKind, loaded, loadedAt, resp, saveNow, issuedAt, ret,
                    gotUrl, user_input, inputCfg >>
    /\ UNCHANGED callVars

\* Authorizer.__init__, lines 60-67: a new manager with a new Token; the
\* 'input' section of its configuration is handed to _get_input.
Configure(m, config) ==
    /\ m \in live
    /\ pc[m] \in {"idle", "done", "raised"}
    /\ runs[m] < MaxConstruct
    /\ runs' = [runs EXCEPT ![m] = @ + 1]
    /\ pc' = [pc EXCEPT ![m] = "init"]
    /\ inputCfg' = [inputCfg EXCEPT ![m] = config]
    /\ user_input' = [user_input EXCEPT ![m] = "none"]
    /\ tok' = [tok EXCEPT ![m] = TokenInit]
    /\ err' = [err EXCEPT ![m] = "none"]
    /\ inTry' = [inTry EXCEPT ![m] = FALSE]
    /\ req' = [req EXCEPT ![m] = NoRequest]
    /\ pending' = [pending EXCEPT ![m] = EmptyDict]
    /\ log' = [log EXCEPT ![m] = << >>]
    /\ loadKind' = [loadKind EXCEPT ![m] = "none"]
    /\ loaded' = [loaded EXCEPT ![m] = MissingFile]
    /\ loadedAt' = [loadedAt EXCEPT ![m] = None]
    /\ resp' = [resp EXCEPT ![m] = EmptyDict]
    /\ saveNow' = [saveNow EXCEPT ![m] = None]
    /\ issuedAt' = [issuedAt EXCEPT ![m] = None]
    /\ ret' = [ret EXCEPT ![m] = NoRet]
    /\ gotUrl' = [gotUrl EXCEPT ![m] = NoUrl]
    /\ UNCHANGED << clock, file, issued, live >>
    /\ UNCHANGED callVars

\* _get_input with an input type that is not registered: get_input raises
\* before _load_tokens is reached.
ConstructUnknownInput(m) ==
    /\ m \in live
    /\ pc[m] = "init"
    /\ get_input(input_type(inputCfg[m])) # "none"
    /\ pc' = [pc EXCEPT ![m] = "raised"]
    /\ err' = [err EXCEPT ![m] = get_input(input_type(inputCfg[m]))]
    /\ inputCfg' = [inputCfg EXCEPT ![m] = "none"]
    /\ UNCHANGED << clock, file, issued, live, tok, inTry, req, pending, runs,
                    log, loadKind, loaded, loadedAt, resp, saveNow, issuedAt,
                    ret, gotUrl, user_input >>
    /\ UNCHANGED callVars

\* _get_input with a registered type, then _load_tokens up to the consent
\* collector, the token endpoint or its end.
Construct(m) ==
    /\ m \in live
    /\ pc[m] = "init"
    /\ get_input(input_type(inputCfg[m])) = "none"
    /\ user_input' = [user_input EXCEPT ![m] = input_type(inputCfg[m])]
    /\ inputCfg' = [inputCfg EXCEPT ![m] = "none"]
    /\ LET l == LoadTokens(file, clock)
           d == FetchTokenData("refresh_token", l.tok.refresh_token)
           raised == l.next = "fetch" /\ d.exc # "none"
       IN
        /\ pc' = [pc EXCEPT ![m] = IF raised THEN "raised" ELSE l.next]
        /\ err' = [err EXCEPT ![m] = IF raised THEN d.exc ELSE l.exc]
        /\ tok' = [tok EXCEPT ![m] = l.tok]
        /\ inTry' = [inTry EXCEPT ![m] = l.inTry]
        /\ req' = [req EXCEPT ![m] =
                     IF l.next = "fetch" THEN d.data ELSE NoRequest]
        /\ log' = [log EXCEPT ![m] =
                     IF raised THEN << >> ELSE Event(l.next)]
        /\ loadKind' = [loadKind EXCEPT ![m] = l.kind]
        /\ issuedAt' = [issuedAt EXCEPT ![m] = l.tok.access_token_updated]
    /\ loaded' = [loaded EXCEPT ![m] = file]
    /\ loadedAt' = [loadedAt EXCEPT ![m] = clock]
    /\ UNCHANGED << clock, file, issued, live, pending, runs, resp, saveNow,
                    ret, gotUrl >>
    /\ UNCHANGED callVars

\* _update_refresh_token, line 105: the consent collector returns a URL
GetInput(m, u) ==
    /\ m \in live
    /\ pc[m] = "consent"
    /\ gotUrl[m] = NoUrl
    /\ gotUrl' = [gotUrl EXCEPT ![m] = u]
    /\ UNCHANGED << clock, file, issued, live, pc, tok, inTry, req, pending,
                    err, runs, log, loadKind, loaded, loadedAt, resp, saveNow,
                    issuedAt, ret, user_input, inputCfg >>
    /\ UNCHANGED callVars

\* _update_refresh_token, lines 106-110: the code is cut out of the URL and
\* the authorization_code request sent.  A missing marker is a ValueError,
\* which no except clause catches.
Consent(m) ==
    /\ m \in live
    /\ pc[m] = "consent"
    /\ gotUrl[m] # NoUrl
    /\ gotUrl' = [gotUrl EXCEPT ![m] = NoUrl]
    /\ LET x == ExtractCode(gotUrl[m])
           d == FetchTokenData("authorization_code", x.code)
       IN
        IF x.exc # "none" \/ d.exc # "none"
        THEN /\ pc' = [pc EXCEPT ![m] = "raised"]
             /\ err' = [err EXCEPT ![m] =
                          IF x.exc # "none" THEN x.exc ELSE d.exc]
             /\ UNCHANGED << req, log >>
        ELSE /\ pc' = [pc EXCEPT ![m] = "fetch"]
             /\ req' = [req EXCEPT ![m] = d.data]
             /\ log' = [log EXCEPT ![m] = Append(@, "authorization_code")]
             /\ UNCHANGED err
    /\ UNCHANGED << clock, file, issued, live, tok, inTry, pending, runs,
                    loadKind, loaded, loadedAt, resp, saveNow, issuedAt, ret,
                    user_input, inputCfg >>
    /\ UNCHANGED callVars

\* _fetch_token, line 129: utils.request raises; the exception is none of
\* those _load_tokens catches and leaves the constructor.
RespondError(m, failure, status) ==
    /\ m \in live
    /\ pc[m] = "fetch"
    /\ Request(failure, status) # "response"
    /\ pc' = [pc EXCEPT ![m] = "raised"]
    /\ err' = [err EXCEPT ![m] = Request(failure, status)]
    /\ req' = [req EXCEPT ![m] = NoRequest]
    /\ UNCHANGED << clock, file, issued, live, tok, inTry, pending, runs, log,
                    loadKind, loaded, loadedAt, resp, saveNow, issuedAt, ret,
                    gotUrl, user_input, inputCfg >>
    /\ UNCHANGED callVars

\* _fetch_token, line 129: the response is returned and its body is not
\* JSON, so .json() raises requests' JSONDecodeError.  That class derives
\* from json.JSONDecodeError unless simplejson is installed: `stdlib` is which
\* of the two this build has.  Inside _load_tokens' try block the stdlib
\* class is caught and _update_refresh_token runs from the except clause.
RespondNotJson(m, status, stdlib) ==
    /\ m \in live
    /\ pc[m] = "fetch"
    /\ Request("none", status) = "response"
    /\ req' = [req EXCEPT ![m] = NoRequest]
    /\ IF inTry[m] /\ stdlib /\ "JSONDecodeError" \in Caught
       THEN /\ pc' = [pc EXCEPT ![m] = "consent"]
            /\ inTry' = [inTry EXCEPT ![m] = FALSE]
            /\ log' = [log EXCEPT ![m] = @ \o Event("consent")]
            /\ UNCHANGED err
       ELSE /\ pc' = [pc EXCEPT ![m] = "raised"]
            /\ err' = [err EXCEPT ![m] = "JSONDecodeError"]
            /\ UNCHANGED << inTry, log >>
    /\ UNCHANGED << clock, file, issued, live, tok, pending, runs,
                    loadKind, loaded, loadedAt, resp, saveNow, issuedAt, ret,
                    gotUrl, user_input, inputCfg >>
    /\ UNCHANGED callVars

\* _fetch_token returns a dict and Token.save runs up to the open of the
\* file: pop, update, now, output_data, open(token_path, 'w').  The open
\* empties the file, or fails (writable = FALSE) and leaves it as it is.
RespondJson(m, status, writable) ==
    /\ m \in live
    /\ pc[m] = "fetch"
    /\ Request("none", status) = "response"
    /\ \E body \in Responses(issued + 1) :
        LET s == TokenSave(tok[m], body,
                           req[m].grant_type = "authorization_code", clock)
        IN
        /\ issued' = issued + 1
        /\ resp' = [resp EXCEPT ![m] = body]
        /\ req' = [req EXCEPT ![m] = NoRequest]
        /\ tok' = [tok EXCEPT ![m] = s.tok]
        /\ IF s.exc # "none"
           THEN /\ pc' = [pc EXCEPT ![m] = "raised"]
                /\ err' = [err EXCEPT ![m] = s.exc]
                /\ UNCHANGED << file, pending, saveNow, issuedAt >>
           ELSE /\ saveNow' = [saveNow EXCEPT ![m] = clock]
                /\ issuedAt' = [issuedAt EXCEPT ![m] = clock]
                /\ IF writable
                   THEN /\ pc' = [pc EXCEPT ![m] = "write"]
                        /\ file' = TruncatedFile
                        /\ pending' = [pending EXCEPT ![m] = s.out]
                        /\ UNCHANGED err
                   ELSE /\ pc' = [pc EXCEPT ![m] = "raised"]
                        /\ err' = [err EXCEPT ![m] = "PermissionError"]
                        /\ UNCHANGED << file, pending >>
    /\ UNCHANGED << clock, live, inTry, runs, log, loadKind, loaded, loadedAt,
                    ret, gotUrl, user_input, inputCfg >>
    /\ UNCHANGED callVars

\* Write that puts back the record the manager loaded
WriteLoaded(m) ==
    /\ m \in live
    /\ pc[m] = "write"
    /\ file' = loaded[m]
    /\ pending' = [pending EXCEPT ![m] = EmptyDict]
    /\ pc' = [pc EXCEPT ![m] = "done"]
    /\ log' = [log EXCEPT ![m] = Append(@, "persist")]
    /\ UNCHANGED << clock, issued, live, tok, inTry, req, err, runs,
                    loadKind, loaded, loadedAt, resp, saveNow, issuedAt, ret,
                    gotUrl, user_input, inputCfg >>
    /\ UNCHANGED callVars

\* Token.save, line 56: json.dump writes output_data and the file is closed;
\* save returns and with it the constructor.
Write(m) ==
    /\ m \in live
    /\ pc[m] = "write"
    /\ file' = File("json", pending[m])
    /\ pending' = [pending EXCEPT ![m] = EmptyDict]
    /\ pc' = [pc EXCEPT ![m] = "done"]
    /\ log' = [log EXCEPT ![m] = Append(@, "persist")]
    /\ UNCHANGED << clock, issued, live, tok, inTry, req, err, runs,
                    loadKind, loaded, loadedAt, resp, saveNow, issuedAt, ret,
                    gotUrl, user_input, inputCfg >>
    /\ UNCHANGED callVars

\* The process ends inside Token.save, between the open of the file and
\* json.dump: the manager is gone and the file stays as the open left it.
Stop(m) ==
    /\ m \in live
    /\ pc[m] = "write"
    /\ pc' = [pc EXCEPT ![m] = "idle"]
    /\ tok' = [tok EXCEPT ![m] = TokenInit]
    /\ inTry' = [inTry EXCEPT ![m] = FALSE]
    /\ req' = [req EXCEPT ![m] = NoRequest]
    /\ pending' = [pending EXCEPT ![m] = EmptyDict]
    /\ err' = [err EXCEPT ![m] = "none"]
    /\ log' = [log EXCEPT ![m] = << >>]
    /\ loadKind' = [loadKind EXCEPT ![m] = "none"]
    /\ loaded' = [loaded EXCEPT ![m] = MissingFile]
    /\ loadedAt' = [loadedAt EXCEPT ![m] = None]
    /\ resp' = [resp EXCEPT ![m] = EmptyDict]
    /\ saveNow' = [saveNow EXCEPT ![m] = None]
    /\ issuedAt' = [issuedAt EXCEPT ![m] = None]
    /\ ret' = [ret EXCEPT ![m] = NoRet]
    /\ gotUrl' = [gotUrl EXCEPT ![m] = NoUrl]
    /\ user_input' = [user_input EXCEPT ![m] = "none"]
    /\ UNCHANGED << clock, file, issued, live, runs, inputCfg >>
    /\ UNCHANGED callVars

\* Authorizer.get_access_token: self.token.access_token as it is.  `stale`
\* records whether the token returned was past its TTL at that moment.
GetAccessToken(m) ==
    /\ m \in live
    /\ pc[m] = "done"
    /\ ret' = [ret EXCEPT ![m] =
                 [called |-> TRUE, token |-> tok[m].access_token,
                  stale |-> Expired(issuedAt[m], clock,
                                    tok[m].access_token_expires_in_sec)]]
    /\ UNCHANGED << clock, file, issued, live, pc, tok, inTry, req, pending,
                    err, runs, log, loadKind, loaded, loadedAt, resp, saveNow,
                    issuedAt, gotUrl, user_input, inputCfg >>
    /\ UNCHANGED callVars

Next ==
    \/ Tick
    \/ \E m \in Procs, c \in InputConfigs : Configure(m, c)
    \/ \E m \in Procs : ConstructUnknownInput(m)
    \/ \E m \in Procs : Construct(m)
    \/ \E m \in Procs, u \in Urls : GetInput(m, u)
    \/ \E m \in Procs : Consent(m)
    \/ \E m \in Procs, f \in Failures, st \in Statuses : RespondError(m, f, st)
    \/ \E m \in Procs, st \in Statuses, b \in BOOLEAN : RespondNotJson(m, st, b)
    \/ \E m \in Procs, st \in Statuses, w \in BOOLEAN : RespondJson(m, st, w)
    \/ \E m \in Procs : Write(m)
    \/ \E m \in Procs : Stop(m)
    \/ \E m \in Procs : GetAccessToken(m)

Spec == Init /\ [][Next]_vars

-----------------------------------------------------------------------------
(* What a construction found, stated from the file and the clock alone *)

\* The file read by m's construction held every key with timestamps that parse
CompleteLoad(m) ==
    /\ loadKind[m] # "none"
    /\ loaded[m].kind = "json"
    /\ loaded[m].data.has = FileKeys
    /\ loaded[m].data.refresh_token_updated.form # "bad"
    /\ loaded[m].data.access_token_updated.form # "bad"

\* Seconds since the record's refresh token was issued, when it was read
RefreshAge(m) == loadedAt[m] - loaded[m].data.refresh_token_updated.t

\* Seconds since the record's access token was issued, when it was read
AccessAge(m) == loadedAt[m] - loaded[m].data.access_token_updated.t

RefreshStaleLoad(m) == CompleteLoad(m) /\ RefreshAge(m) > RefreshTTL

AccessStaleLoad(m) ==
    /\ CompleteLoad(m)
    /\ RefreshAge(m) <= RefreshTTL
    /\ AccessAge(m) > loaded[m].data.access_token_expires_in_sec

FreshLoad(m) ==
    /\ CompleteLoad(m)
    /\ RefreshAge(m) <= RefreshTTL
    /\ AccessAge(m) <= loaded[m].data.access_token_expires_in_sec

\* How often event e occurs in m's log
Count(m, e) == Cardinality({i \in 1..Len(log[m]) : log[m][i] = e})

-----------------------------------------------------------------------------
(* Claims *)

\* C1: every get_access_token() after a successful construction returns an
\* access token that is not stale at the moment it is returned.
C1_ReturnedTokenNotStale ==
    \A m \in live : ret[m].called => ~ret[m].stale

\* C2: after a complete record is loaded exactly one action is chosen, the
\* refresh token checked first: refresh stale -> the consent collector runs
\* and no refresh_token grant is issued; else access stale -> exactly one
\* refresh_token grant and the consent collector is not invoked; else neither.
C2_ExactlyOneAction ==
    \A m \in live :
        /\ RefreshStaleLoad(m) =>
              Count(m, "consent") >= 1 /\ Count(m, "refresh_token") = 0
        /\ AccessStaleLoad(m) =>
              Count(m, "refresh_token") = 1 /\ Count(m, "consent") = 0
        /\ FreshLoad(m) => log[m] = << >>

\* C3: a record loaded with both timestamps within their TTLs: construction
\* ends at once, get_access_token() returns the record's access token, no
\* token-endpoint request is issued, the consent collector is not invoked
\* and the file stays as it was.
C3_FreshLoadIsSilent ==
    \A m \in live :
        FreshLoad(m) =>
            /\ pc[m] = "done"
            /\ log[m] = << >>
            /\ req[m] = NoRequest
            /\ file = loaded[m]
            /\ tok[m].access_token = loaded[m].data.access_token
            /\ ret[m].called => ret[m].token = loaded[m].data.access_token

\* C3 witness: a fresh load at the boundary of the access TTL, the clock
\* having moved on, and get_access_token() called
C3_Witness ==
    \E m \in live :
        /\ FreshLoad(m)
        /\ AccessAge(m) = loaded[m].data.access_token_expires_in_sec
        /\ clock > loadedAt[m]
        /\ ret[m].called

\* The file read by m's construction did not exist
NoFileLoad(m) == loadedAt[m] # None /\ loaded[m] = MissingFile

\* The events of a full authorization that runs to its end
FullAuthorization == << "consent", "authorization_code", "persist" >>

\* The events of a silent refresh that runs to its end
SilentRefresh == << "refresh_token", "persist" >>

IsPrefix(s, t) == Len(s) <= Len(t) /\ s = SubSeq(t, 1, Len(s))

\* C4: a record loaded with a stale access token and a fresh refresh token,
\* the token endpoint answering with a complete response: exactly one
\* refresh_token grant is issued, carrying the record's refresh token, and
\* the record persisted has the loaded refresh_token_updated and the time
\* of the grant as access_token_updated.
C4_SilentRefreshPersists ==
    \A m \in live :
        AccessStaleLoad(m) /\ Count(m, "consent") = 0 =>
            /\ IsPrefix(log[m], SilentRefresh)
            /\ Count(m, "refresh_token") = 1
            /\ pc[m] = "fetch" =>
                  /\ req[m].grant_type = "refresh_token"
                  /\ req[m].refresh_token = loaded[m].data.refresh_token
            /\ resp[m].has = ResponseKeys =>
                  /\ pc[m] \in {"write", "done", "raised"}
                  /\ pc[m] = "raised" => err[m] = "PermissionError"
                  /\ saveNow[m] >= loadedAt[m]
            /\ pc[m] = "done" =>
                  /\ log[m] = SilentRefresh
                  /\ file.kind = "json"
                  /\ file.data.has = FileKeys
                  /\ fromisoformat(file.data.refresh_token_updated).t =
                        fromisoformat(loaded[m].data.refresh_token_updated).t
                  /\ file.data.access_token_updated = isoformat(saveNow[m])
                  /\ file.data.access_token = resp[m].access_token

\* C4 witness: a silent refresh that ended, of a record whose refresh
\* timestamp was not written the way isoformat writes it, persisted at a
\* later time than that timestamp
C4_Witness ==
    \E m \in live :
        /\ AccessStaleLoad(m)
        /\ pc[m] = "done"
        /\ log[m] = SilentRefresh
        /\ loaded[m].data.refresh_token_updated.form = "sp"
        /\ saveNow[m] > loaded[m].data.refresh_token_updated.t

\* C5: no file, a well-formed consent URL and a complete response: the
\* consent collector is invoked once, then one authorization_code grant is
\* issued, then one record is persisted whose two timestamps are the same
\* instant.
C5_FullAuthorizationFromNoFile ==
    \A m \in live :
        NoFileLoad(m) =>
            /\ IsPrefix(log[m], FullAuthorization)
            /\ pc[m] = "consent" <=> log[m] = << "consent" >> /\ err[m] = "none"
            /\ pc[m] = "fetch" =>
                  /\ log[m] = << "consent", "authorization_code" >>
                  /\ req[m].grant_type = "authorization_code"
            /\ resp[m].has = ResponseKeys =>
                  /\ pc[m] \in {"write", "done", "raised"}
                  /\ pc[m] = "raised" => err[m] = "PermissionError"
            /\ pc[m] = "done" =>
                  /\ log[m] = FullAuthorization
                  /\ file.kind = "json"
                  /\ file.data.has = FileKeys
                  /\ file.data.refresh_token_updated = isoformat(saveNow[m])
                  /\ file.data.access_token_updated = isoformat(saveNow[m])

\* C5 witness: a full authorization from no file that ended, the clock
\* having moved between the load and the grant
C5_Witness ==
    \E m \in live :
        /\ NoFileLoad(m)
        /\ pc[m] = "done"
        /\ log[m] = FullAuthorization
        /\ saveNow[m] > loadedAt[m]

MalformedLoad(m) ==
    /\ loadedAt[m] # None
    /\ \/ loaded[m].kind \in {"garbage", "truncated"}
       \/ loaded[m].kind = "json" /\ loaded[m].data.has # FileKeys

\* C7: a file that is unreadable or incomplete is treated as no state: the
\* load failure is not raised and the manager proceeds to full
\* authorization.
C7_MalformedRecordIsNoState ==
    \A m \in live :
        MalformedLoad(m) =>
            /\ Len(log[m]) >= 1 /\ log[m][1] = "consent"
            /\ err[m] \notin {"KeyError", "TypeError"}

\* C8: in every state of the store refresh_token is set if and only if
\* access_token is set.
C8_BothTokensOrNone ==
    \A m \in live :
        tok[m].refresh_token = NoToken <=> tok[m].access_token = NoToken

\* C9: applying a grant response with is_refresh_token = False sets the
\* store's access_token_updated to the call time and leaves the store's
\* refresh_token_updated as it was.
C9_RefreshGrantStampsAccessOnly ==
    \A m \in live :
        pc[m] = "done" /\ log[m] = SilentRefresh =>
            /\ tok[m].access_token_updated = saveNow[m]
            /\ tok[m].refresh_token_updated =
                  fromisoformat(loaded[m].data.refresh_token_updated).t

\* C10: applying a grant response with is_refresh_token = True, from any
\* store state including the empty one, sets the store's
\* access_token_updated and refresh_token_updated to the same call time, so
\* that both staleness predicates can be evaluated afterwards.
C10_ReauthorizationStampsBoth ==
    \A m \in live :
        pc[m] = "done" /\ Count(m, "authorization_code") >= 1 =>
            /\ tok[m].access_token_updated = saveNow[m]
            /\ tok[m].refresh_token_updated = saveNow[m]
            /\ is_refresh_token_expired(tok[m], clock).exc = "none"
            /\ is_access_token_expired(tok[m], clock).exc = "none"

\* C11: staleness is a strict inequality.  is_access_token_expired is true
\* iff now - access_token_updated > access_token_expires_in_sec (true at
\* TTL + 1, false at TTL) and is_refresh_token_expired is the same
\* comparison of refresh_token_updated with the refresh TTL; the branch
\* _update_token takes on a complete record follows the two.
C11_StalenessIsStrict ==
    \A m \in live :
        /\ tok[m].access_token_updated # None =>
              LET age == clock - tok[m].access_token_updated
                  ttl == tok[m].access_token_expires_in_sec
                  x   == is_access_token_expired(tok[m], clock)
              IN  /\ x.exc = "none"
                  /\ x.val <=> age > ttl
                  /\ age = ttl + 1 => x.val
                  /\ age = ttl => ~x.val
        /\ tok[m].refresh_token_updated # None =>
              LET age == clock - tok[m].refresh_token_updated
                  x   == is_refresh_token_expired(tok[m], clock)
              IN  /\ x.exc = "none"
                  /\ x.val <=> age > RefreshTTL
                  /\ age = RefreshTTL + 1 => x.val
                  /\ age = RefreshTTL => ~x.val
        /\ CompleteLoad(m) =>
              /\ loadKind[m] = "refresh_stale" <=> RefreshAge(m) > RefreshTTL
              /\ loadKind[m] = "access_stale" <=>
                    /\ RefreshAge(m) <= RefreshTTL
                    /\ AccessAge(m) > loaded[m].data.access_token_expires_in_sec
              /\ loadKind[m] = "fresh" <=>
                    /\ RefreshAge(m) <= RefreshTTL
                    /\ AccessAge(m) <= loaded[m].data.access_token_expires_in_sec

\* C11 witness: a record read when its refresh token was exactly as old as
\* the refresh TTL and its access token one second older than its own TTL,
\* taken as refresh-fresh and access-stale
C11_Witness ==
    \E m \in live :
        /\ CompleteLoad(m)
        /\ RefreshAge(m) = RefreshTTL
        /\ AccessAge(m) = loaded[m].data.access_token_expires_in_sec + 1
        /\ loadKind[m] = "access_stale"
        /\ clock = loadedAt[m]
        /\ ~is_refresh_token_expired(tok[m], clock).val
        /\ is_access_token_expired(tok[m], clock).val

\* The step in which manager m uses the URL its collector returned
UsesUrl(m) ==
    /\ pc[m] = "consent"
    /\ gotUrl[m] # NoUrl
    /\ gotUrl'[m] = NoUrl

\* The places of a piece in a URL
Places(u, piece) == {i \in 1..Len(u) : u[i] = piece}

\* The least of a non-empty set of places
Least(S) == CHOOSE i \in S : \A j \in S : i <= j

\* 'code=' occurs in u and '%40&' occurs after it
MarkersInOrder(u) ==
    \E i \in Places(u, "code="), j \in Places(u, "%40&") : i < j

\* The pieces of u that lie after place s and before place e, "@" appended
BetweenWithAt(u, s, e) ==
    LET n == IF e > s THEN e - s - 1 ELSE 0
    IN  [i \in 1..(n + 1) |-> IF i <= n THEN u[s + i] ELSE "@"]

\* C12: for every redirect URL in which 'code=' occurs and '%40&' occurs
\* after it, the code sent in the authorization_code grant is the text
\* between the end of the first 'code=' and the first '%40&', with "@"
\* appended.
C12_CodeIsTextBetweenMarkers ==
    [][\A m \in live :
        UsesUrl(m) /\ MarkersInOrder(gotUrl[m]) =>
            /\ pc'[m] = "fetch"
            /\ req'[m].grant_type = "authorization_code"
            /\ req'[m].code =
                  BetweenWithAt(gotUrl[m],
                                Least(Places(gotUrl[m], "code=")),
                                Least(Places(gotUrl[m], "%40&")))]_vars

\* C12 witness: an authorization_code request in flight whose code is one
\* piece of text and the "@"
C12_Witness ==
    \E m \in live :
        /\ pc[m] = "fetch"
        /\ req[m].grant_type = "authorization_code"
        /\ req[m].code = << "a", "@" >>
        /\ log[m] = << "consent", "authorization_code" >>

\* A marker is absent from u
LacksMarker(u) == Places(u, "code=") = {} \/ Places(u, "%40&") = {}

\* C13: a URL from the consent collector that lacks 'code=' or lacks '%40&'
\* makes full authorization fail with an error raised to the caller; no
\* token-endpoint request is issued and neither the store nor the file is
\* changed.
C13_MissingMarkerFailsCleanly ==
    [][\A m \in live :
        UsesUrl(m) /\ LacksMarker(gotUrl[m]) =>
            /\ pc'[m] = "raised"
            /\ err'[m] = "ValueError"
            /\ req'[m] = NoRequest
            /\ log'[m] = log[m]
            /\ issued' = issued
            /\ tok' = tok
            /\ file' = file]_vars

\* C13 witness: a full authorization entered from a record whose refresh
\* token was stale, ended by the ValueError of the extraction, the store
\* still holding the record's tokens
C13_Witness ==
    \E m \in live :
        /\ RefreshStaleLoad(m)
        /\ pc[m] = "raised"
        /\ err[m] = "ValueError"
        /\ log[m] = << "consent" >>
        /\ tok[m].refresh_token = loaded[m].data.refresh_token
        /\ file = loaded[m]

\* The step in which manager m receives a JSON object from the token endpoint
Receives(m) ==
    /\ pc[m] = "fetch"
    /\ pc'[m] # "fetch"
    /\ issued' = issued + 1

\* C14: a token-endpoint response that lacks one of access_token,
\* refresh_token, id_token, expires_in makes the grant fail with nothing
\* applied: every field of the store and the file are as before the grant.
C14_IncompleteResponseAppliesNothing ==
    [][\A m \in live :
        Receives(m) /\ resp'[m].has # ResponseKeys =>
            /\ pc'[m] = "raised"
            /\ tok'[m] = tok[m]
            /\ file' = file]_vars

\* The exceptions utils.request raises
TransportErrors ==
    {"InternetConnectionException", "BrokerAPIException",
     "BadRequestException", "ServerErrorException", "HTTPErrorException"}

\* The step in which the transport call of manager m's grant raises
TransportRaises(m) ==
    /\ pc[m] = "fetch"
    /\ pc'[m] = "raised"
    /\ err'[m] \in TransportErrors

\* C15: the token file is written only in a step that follows the receipt
\* of a response with all required fields; when the transport call of a
\* grant raises, the file is after the call what it was before.
C15_FileWrittenOnlyAfterCompleteResponse ==
    [][/\ file' # file =>
            \E m \in live :
                \/ /\ Receives(m)
                   /\ resp'[m].has = ResponseKeys
                   /\ pc'[m] = "write"
                \/ /\ pc[m] = "write"
                   /\ resp[m].has = ResponseKeys
                   /\ pc'[m] = "done"
       /\ \A m \in live : TransportRaises(m) => file' = file]_vars

\* C15 witness: a silent refresh whose transport call raised on a 5xx
\* answer, the file being the record that was loaded
C15_Witness ==
    \E m \in live :
        /\ AccessStaleLoad(m)
        /\ pc[m] = "raised"
        /\ err[m] = "ServerErrorException"
        /\ log[m] = << "refresh_token" >>
        /\ file = loaded[m]

\* The step in which manager m's grant exchange ends other than in a save
GrantFails(m) ==
    /\ pc[m] = "fetch"
    /\ pc'[m] \notin {"fetch", "write"}

\* C16: a failure raised during a grant exchange (transport error, body
\* that is not JSON, response lacking fields), in the silent refresh or in
\* the full authorization, ends the operation with the failure raised to
\* the caller; afterwards no token-endpoint request is issued and the
\* consent collector is not invoked.
C16_GrantFailurePropagates ==
    [][\A m \in live :
        /\ GrantFails(m) =>
              /\ pc'[m] = "raised"
              /\ err'[m] # "none"
              /\ log'[m] = log[m]
              /\ req'[m] = NoRequest
        /\ pc[m] = "raised" /\ runs'[m] = runs[m] =>
              /\ pc'[m] = "raised"
              /\ log'[m] = log[m]
              /\ req'[m] = NoRequest]_vars

\* C17: persisting is atomic.  At every instant, also when the process
\* stops inside Token.save, the file holds the complete previous record or
\* the complete new one, never an empty or truncated one; and when a
\* successful grant returns, the file holds the complete new record: the
\* six fields, access_token_expires_in_sec being the response's expires_in.
C17_PersistIsAtomic ==
    /\ file.kind # "truncated"
    /\ \A m \in live :
          pc[m] = "done" /\ Count(m, "persist") = 1 =>
              /\ file.kind = "json"
              /\ file.data.has = FileKeys
              /\ file.data.access_token = resp[m].access_token
              /\ file.data.refresh_token = resp[m].refresh_token
              /\ file.data.id_token = resp[m].id_token
              /\ file.data.access_token_expires_in_sec = resp[m].expires_in

\* The step in which manager m's constructor runs _get_input
GetsInput(m) ==
    /\ pc[m] = "init"
    /\ pc'[m] # "init"

\* C18: constructing the manager with an input type that is not registered
\* fails at construction, before the token file is read, before any
\* token-endpoint request and before any consent prompt, and no other
\* collector is put in its place; with no type configured the terminal
\* collector is used.
C18_UnknownInputTypeFailsFast ==
    [][\A m \in live :
        GetsInput(m) =>
            /\ inputCfg[m] \notin Registry \cup {"absent"} =>
                  /\ pc'[m] = "raised"
                  /\ err'[m] = "ValueError"
                  /\ user_input'[m] = "none"
                  /\ loadedAt'[m] = None
                  /\ log'[m] = << >>
                  /\ req'[m] = NoRequest
                  /\ tok'[m] = TokenInit
                  /\ file' = file
                  /\ issued' = issued
            /\ inputCfg[m] \in Registry =>
                  user_input'[m] = inputCfg[m] /\ loadedAt'[m] # None
            /\ inputCfg[m] = "absent" =>
                  user_input'[m] = "terminal" /\ loadedAt'[m] # None]_vars

\* C18 witness: a construction that raised the ValueError of get_input, the
\* token file not read
C18_Witness ==
    \E m \in live :
        /\ runs[m] >= 1
        /\ pc[m] = "raised"
        /\ err[m] = "ValueError"
        /\ user_input[m] = "none"
        /\ loadedAt[m] = None
        /\ file.kind = "json"

\* Manager m's constructor has read a record that a grant had written, and
\* no response has reached it since
LoadedWrittenRecord(m) ==
    /\ loadedAt[m] # None
    /\ loaded[m].kind = "json"
    /\ loaded[m].data.access_token.n >= 1
    /\ resp[m] = EmptyDict

\* The store that Token.update makes of a parsed file
Loading(data) == TokenUpdate(TokenInit, data)

\* C19: round trip.  Loading a record written by a successful grant gives a
\* store whose six values are the values written, and saving a store then
\* loading it gives the store again.
C19_RoundTrip ==
    \A m \in live :
        /\ LoadedWrittenRecord(m) =>
              /\ loadKind[m] # "incomplete"
              /\ tok[m].refresh_token = loaded[m].data.refresh_token
              /\ tok[m].access_token = loaded[m].data.access_token
              /\ tok[m].id_token = loaded[m].data.id_token
              /\ tok[m].access_token_expires_in_sec =
                    loaded[m].data.access_token_expires_in_sec
              /\ isoformat(tok[m].refresh_token_updated) =
                    loaded[m].data.refresh_token_updated
              /\ isoformat(tok[m].access_token_updated) =
                    loaded[m].data.access_token_updated
        /\ pc[m] = "done" /\ Count(m, "persist") = 1 =>
              /\ Loading(file.data).exc = "none"
              /\ Loading(file.data).tok = tok[m]

\* Grant types _fetch_token may be called with
GrantTypes ==
    {"authorization_code", "refresh_token", "password", "client_credentials"}

\* The step in which manager m sends a request to the token endpoint
Sends(m) == req'[m] # NoRequest /\ req'[m] # req[m]

\* C20: every token-endpoint request carries grant_type authorization_code
\* with the code cut out of the URL and redirect_uri = callback_url, or
\* grant_type refresh_token with the refresh token the store holds; any
\* other grant type raises before a request is sent, and nothing the
\* constructor or get_access_token() does reaches that branch.
C20_OnlyTwoGrantTypes ==
    [][/\ \A m \in live :
          /\ Sends(m) =>
                \/ /\ UsesUrl(m)
                   /\ req'[m].grant_type = "authorization_code"
                   /\ req'[m].code =
                         BetweenWithAt(gotUrl[m],
                                       Least(Places(gotUrl[m], "code=")),
                                       Least(Places(gotUrl[m], "%40&")))
                   /\ req'[m].redirect_uri = "callback_url"
                \/ /\ GetsInput(m)
                   /\ req'[m].grant_type = "refresh_token"
                   /\ req'[m].refresh_token = tok'[m].refresh_token
                   /\ req'[m].refresh_token # NoToken
          /\ pc'[m] = "fetch" =>
                /\ req'[m].grant_type \in {"authorization_code", "refresh_token"}
                /\ req'[m].grant_type = "refresh_token" =>
                      req'[m].refresh_token = tok'[m].refresh_token
          /\ pc[m] # "raised" /\ pc'[m] = "raised" /\ err'[m] = "ValueError" =>
                \/ GetsInput(m) /\ inputCfg[m] \notin Registry \cup {"absent"}
                \/ GetsInput(m) /\ loadKind'[m] = "incomplete"
                \/ UsesUrl(m) /\ LacksMarker(gotUrl[m])
       /\ \A g \in GrantTypes \ {"authorization_code", "refresh_token"} :
             /\ FetchTokenData(g, << "a", "@" >>).exc = "ValueError"
             /\ FetchTokenData(g, << "a", "@" >>).data = NoRequest]_vars

\* C20 witness: a refresh_token request in flight that carries the refresh
\* token of the record loaded, time having passed since it was sent
C20_Witness ==
    \E m \in live :
        /\ pc[m] = "fetch"
        /\ req[m].grant_type = "refresh_token"
        /\ req[m].refresh_token = loaded[m].data.refresh_token
        /\ req[m].refresh_token = tok[m].refresh_token
        /\ clock > loadedAt[m]

\* HTTP statuses at and around the limits of the error classes
EdgeStatuses == {200, 204, 302, 399, 400, 404, 499, 500, 503, 599}

\* C21: the transport maps every failed request to one error kind: status
\* 400-499 to BadRequestException, 500-599 to ServerErrorException, a
\* connectivity failure to InternetConnectionException, any other request
\* failure to BrokerAPIException; a response is returned only when the
\* status is no error; and the error raised in a grant reaches the caller
\* with its kind unchanged.
C21_TransportErrorKinds ==
    [][/\ \A st \in EdgeStatuses \cup Statuses :
            /\ Request("ConnectionError", st) = "InternetConnectionException"
            /\ Request("RequestException", st) = "BrokerAPIException"
            /\ (400 <= st /\ st <= 499) =>
                  Request("none", st) = "BadRequestException"
            /\ (500 <= st /\ st <= 599) =>
                  Request("none", st) = "ServerErrorException"
            /\ Request("none", st) = "response" <=> st < 400
       /\ \A m \in live :
            /\ TransportRaises(m) =>
                  /\ err'[m] \in {"BadRequestException", "ServerErrorException",
                                  "InternetConnectionException",
                                  "BrokerAPIException"}
                  /\ log'[m] = log[m]
                  /\ req'[m] = NoRequest
                  /\ resp'[m] = resp[m]
            /\ pc[m] = "raised" /\ runs'[m] = runs[m] =>
                  err'[m] = err[m] /\ pc'[m] = "raised"]_vars

\* C21 witness: a full authorization whose authorization_code grant could
\* not connect, the constructor having raised InternetConnectionException
C21_Witness ==
    \E m \in live :
        /\ pc[m] = "raised"
        /\ err[m] = "InternetConnectionException"
        /\ log[m] = << "consent", "authorization_code" >>
        /\ resp[m] = EmptyDict

-----------------------------------------------------------------------------
(* pyschwab/types.py: PeriodFrequency, the chart period of a price history  *)
(* request.  A missing argument and an argument given as None are the same  *)
(* to set_defaults (values.get(...) is None); None is "None" for the two    *)
(* string fields and None for the two integer fields.                       *)

MaxPeriod == 21
MaxFrequency == 31

\* While a library call is studied no manager exists and no file is there.
NoAuthorizer ==
    /\ clock = MaxStamp
    /\ file = MissingFile
    /\ live = {}
    /\ NoManager

PeriodTypeArgs == {"None", "day", "month", "year", "ytd", "week"}
FrequencyTypeArgs == {"None", "minute", "daily", "weekly", "monthly", "hourly"}
PeriodArgs == {None} \cup (0..MaxPeriod)
FrequencyArgs == {None} \cup (0..MaxFrequency)

\* set_defaults, lines 24-30 and 33-39: dict.get gives None for a period_type
\* that is not a key.
default_periodsAllOne(period_type) ==
    IF period_type \in {"day", "month", "year", "ytd"} THEN 1 ELSE None

default_periods(period_type) ==
    CASE period_type = "day" -> 10
      [] period_type = "month" -> 1
      [] period_type = "year" -> 1
      [] period_type = "ytd" -> 1
      [] OTHER -> None

default_frequency_types(period_type) ==
    CASE period_type = "day" -> "minute"
      [] period_type = "month" -> "weekly"
      [] period_type = "year" -> "monthly"
      [] period_type = "ytd" -> "weekly"
      [] OTHER -> "None"

\* The model validator that runs before the fields are validated.
set_defaults(values) ==
    LET v1 == IF values.period_type = "None"
              THEN [values EXCEPT !.period_type = "day"] ELSE values
        v2 == IF v1.period = None
              THEN [v1 EXCEPT !.period = default_periods(v1.period_type)] ELSE v1
        v3 == IF v2.frequency_type = "None"
              THEN [v2 EXCEPT !.frequency_type =
                                  default_frequency_types(v2.period_type)]
              ELSE v2
    IN  IF v3.frequency = None THEN [v3 EXCEPT !.frequency = 1] ELSE v3

\* The tables inside the validators; a key that is missing gives the empty
\* list, which the validators reject as `not valid_...`.
valid_periods(period_type) ==
    CASE period_type = "day" -> {1, 2, 3, 4, 5, 10}
      [] period_type = "month" -> {1, 2, 3, 6}
      [] period_type = "year" -> {1, 2, 3, 5, 10, 15, 20}
      [] period_type = "ytd" -> {1}
      [] OTHER -> {}

valid_frequency_types(period_type) ==
    CASE period_type = "day" -> {"minute"}
      [] period_type = "month" -> {"daily", "weekly"}
      [] period_type = "year" -> {"daily", "weekly", "monthly"}
      [] period_type = "ytd" -> {"daily", "weekly"}
      [] OTHER -> {}

valid_frequencies(frequency_type) ==
    CASE frequency_type = "minute" -> {1, 5, 10, 15, 30}
      [] frequency_type \in {"daily", "weekly", "monthly"} -> {1}
      [] OTHER -> {}

\* The field validators: TRUE when the value is returned, FALSE when
\* ValueError is raised.  `data` is info.data, the fields validated so far
\* without error.
validate_period_type(v) == v \in {"day", "month", "year", "ytd"}

validate_period(v, data) ==
    "period_type" \in DOMAIN data => v \in valid_periods(data.period_type)

validate_frequency_type(v, data) ==
    "period_type" \in DOMAIN data => v \in valid_frequency_types(data.period_type)

validate_frequency(v, data) ==
    "frequency_type" \in DOMAIN data => v \in valid_frequencies(data.frequency_type)

\* info.data after one more field: the field is added only if it was valid.
WithField(data, name, v, ok) ==
    IF ok THEN [k \in DOMAIN data \cup {name} |-> IF k = name THEN v ELSE data[k]]
    ELSE data

\* PeriodFrequency(**values): set_defaults, then the fields in the order they
\* are declared; every field is tried, and one failure fails the whole.
PeriodFrequency(values) ==
    LET v == set_defaults(values)
        ok1 == validate_period_type(v.period_type)
        d1 == WithField(<< >>, "period_type", v.period_type, ok1)
        ok2 == validate_period(v.period, d1)
        d2 == WithField(d1, "period", v.period, ok2)
        ok3 == validate_frequency_type(v.frequency_type, d2)
        d3 == WithField(d2, "frequency_type", v.frequency_type, ok3)
        ok4 == validate_frequency(v.frequency, d3)
    IN  IF ok1 /\ ok2 /\ ok3 /\ ok4
        THEN [fn |-> "PeriodFrequency", exc |-> "none", period_type |-> v.period_type,
              period |-> v.period, frequency_type |-> v.frequency_type,
              frequency |-> v.frequency]
        ELSE [fn |-> "PeriodFrequency", exc |-> "ValidationError",
              period_type |-> "None", period |-> None,
              frequency_type |-> "None", frequency |-> None]

TypesInit ==
    /\ NoAuthorizer
    /\ NoTradingApi
    /\ args \in [fn : {"PeriodFrequency"}, period_type : PeriodTypeArgs,
                 period : PeriodArgs, frequency_type : FrequencyTypeArgs,
                 frequency : FrequencyArgs]
    /\ result = NoCall

\* The caller constructs the object.
NewPeriodFrequency ==
    /\ args.fn = "PeriodFrequency"
    /\ result = NoCall
    /\ result' = PeriodFrequency([period_type |-> args.period_type,
                                  period |-> args.period,
                                  frequency_type |-> args.frequency_type,
                                  frequency |-> args.frequency])
    /\ UNCHANGED args
    /\ UNCHANGED authVars
    /\ UNCHANGED apiVars

TypesSpec == TypesInit /\ [][NewPeriodFrequency]_vars

\* The reference tables of the documentation.
RefPeriod(pt) ==
    CASE pt = "day" -> {1, 2, 3, 4, 5, 10} [] pt = "month" -> {1, 2, 3, 6}
      [] pt = "year" -> {1, 2, 3, 5, 10, 15, 20} [] pt = "ytd" -> {1}
RefFrequencyType(pt) ==
    CASE pt = "day" -> {"minute"} [] pt = "month" -> {"daily", "weekly"}
      [] pt = "year" -> {"daily", "weekly", "monthly"}
      [] pt = "ytd" -> {"daily", "weekly"}
RefFrequency(ft) == IF ft = "minute" THEN {1, 5, 10, 15, 30} ELSE {1}
RefDefaults(pt) ==
    CASE pt = "day" -> << 10, "minute", 1 >> [] pt = "month" -> << 1, "weekly", 1 >>
      [] pt = "year" -> << 1, "monthly", 1 >> [] pt = "ytd" -> << 1, "weekly", 1 >>

\* What the documentation expects of the arguments `a`: the four values after
\* the defaults, and whether they are accepted.
Expected(a) ==
    LET pt == IF a.period_type = "None" THEN "day" ELSE a.period_type
        known == pt \in {"day", "month", "year", "ytd"}
        p == IF a.period = None /\ known THEN RefDefaults(pt)[1] ELSE a.period
        ft == IF a.frequency_type = "None" /\ known THEN RefDefaults(pt)[2]
              ELSE a.frequency_type
        f == IF a.frequency = None /\ known THEN RefDefaults(pt)[3] ELSE a.frequency
    IN  [period_type |-> pt, period |-> p, frequency_type |-> ft, frequency |-> f,
         valid |-> /\ known
                   /\ p \in RefPeriod(pt)
                   /\ ft \in RefFrequencyType(pt)
                   /\ f \in RefFrequency(ft)]

\* C22: every construction of a PeriodFrequency agrees with the reference
\* tables: it succeeds exactly when the period type is known and the period,
\* the frequency type and the frequency (each after its default) are in the
\* valid lists, the object then holds the values with the defaults of the
\* period type filled in, and every other construction raises a validation
\* error.
C22_PeriodFrequencyAgreesWithTables ==
    result # NoCall /\ result.fn = "PeriodFrequency" =>
        LET e == Expected(args)
        IN  /\ result.exc = "none" <=> e.valid
            /\ result.exc # "none" => result.exc = "ValidationError"
            /\ result.exc = "none" =>
                   /\ result.period_type = e.period_type
                   /\ result.period = e.period
                   /\ result.frequency_type = e.frequency_type
                   /\ result.frequency = e.frequency

\* A construction that gave only the period type and got its defaults.
C22_Witness ==
    /\ args.fn = "PeriodFrequency" /\ result # NoCall
    /\ args.period_type = "year" /\ args.period = None
    /\ args.frequency_type = "None" /\ args.frequency = None
    /\ result.exc = "none" /\ result.period = 1
    /\ result.frequency_type = "monthly" /\ result.frequency = 1

-----------------------------------------------------------------------------
(* pyschwab/trading_models.py and pyschwab/utils.py: an order as a dict of  *)
(* the brokerage's JSON, as an Order object, and back.                      *)
(*                                                                          *)
(* A Python value is a record of its type `t` and its content `v`: a dict   *)
(* is a function from keys to values, a list a sequence of values, a str,   *)
(* an int, a datetime or an enum member is named by a string.  A key is the *)
(* sequence of its characters, so that camel_to_snake and snake_to_camel    *)
(* work on the text as the regular expressions do.  The orders carry no     *)
(* activities and their instruments no option deliverables.                 *)

MaxLegs == 2

Py(t, v) == [t |-> t, v |-> v]
PyNone == Py("NoneType", "None")
PyStr(s) == Py("str", s)
PyList(l) == Py("list", l)
PyDict(d) == Py("dict", d)
Exc(name) == Py("exception", name)
Raised(x) == x.t = "exception"

\* bool(x) for the values met here
Truthy(x) ==
    CASE x.t = "NoneType" -> FALSE
      [] x.t \in {"dict", "list"} -> DOMAIN x.v # {}
      [] x.t = "str" -> x.v # ""
      [] OTHER -> TRUE

LowerCase == << "a", "b", "c", "d", "e", "f", "g", "h", "i", "j", "k", "l", "m",
                "n", "o", "p", "q", "r", "s", "t", "u", "v", "w", "x", "y", "z" >>
UpperCase == << "A", "B", "C", "D", "E", "F", "G", "H", "I", "J", "K", "L", "M",
                "N", "O", "P", "Q", "R", "S", "T", "U", "V", "W", "X", "Y", "Z" >>
Digits == {"0", "1", "2", "3", "4", "5", "6", "7", "8", "9"}
LowerLetters == {LowerCase[i] : i \in 1..26}
UpperLetters == {UpperCase[i] : i \in 1..26}
IsLower(c) == c \in LowerLetters
IsUpper(c) == c \in UpperLetters
lower(c) == IF IsUpper(c) THEN LowerCase[CHOOSE i \in 1..26 : UpperCase[i] = c] ELSE c
upper(c) == IF IsLower(c) THEN UpperCase[CHOOSE i \in 1..26 : LowerCase[i] = c] ELSE c

\* The end of the run of lower-case letters that starts at position i.
RECURSIVE LowerRunEnd(_, _)
LowerRunEnd(name, i) ==
    IF i < Len(name) /\ IsLower(name[i + 1]) THEN LowerRunEnd(name, i + 1) ELSE i

\* re.sub('(.)([A-Z][a-z]+)', r'\1_\2', name), from position i on: matches
\* are taken from the left and do not overlap.
RECURSIVE SubWord(_, _)
SubWord(name, i) ==
    IF i > Len(name) THEN << >>
    ELSE IF i + 2 <= Len(name) /\ IsUpper(name[i + 1]) /\ IsLower(name[i + 2])
    THEN << name[i], "_" >> \o SubSeq(name, i + 1, LowerRunEnd(name, i + 2))
                            \o SubWord(name, LowerRunEnd(name, i + 2) + 1)
    ELSE << name[i] >> \o SubWord(name, i + 1)

\* re.sub('([a-z0-9])([A-Z])', r'\1_\2', s1), from position i on.
RECURSIVE SubHump(_, _)
SubHump(s1, i) ==
    IF i > Len(s1) THEN << >>
    ELSE IF i + 1 <= Len(s1) /\ (IsLower(s1[i]) \/ s1[i] \in Digits) /\ IsUpper(s1[i + 1])
    THEN << s1[i], "_", s1[i + 1] >> \o SubHump(s1, i + 2)
    ELSE << s1[i] >> \o SubHump(s1, i + 1)

camel_to_snake(name) ==
    IF name = << >> THEN name
    ELSE LET s1 == SubWord(name, 1)
             hump == SubHump(s1, 1)
             s2 == [i \in 1..Len(hump) |-> lower(hump[i])]
         IN  IF s2[1] \in Digits THEN << "_" >> \o s2 ELSE s2

\* name.split('_')
RECURSIVE Split(_, _, _)
Split(name, i, word) ==
    IF i > Len(name) THEN << word >>
    ELSE IF name[i] = "_" THEN << word >> \o Split(name, i + 1, << >>)
    ELSE Split(name, i + 1, Append(word, name[i]))

\* str.title(): a letter that follows a letter is lowered, any other raised.
title(x) ==
    [i \in 1..Len(x) |->
        IF i > 1 /\ (IsLower(x[i - 1]) \/ IsUpper(x[i - 1])) THEN lower(x[i])
        ELSE upper(x[i])]

RECURSIVE Join(_, _)
Join(components, i) ==
    IF i > Len(components) THEN << >>
    ELSE title(components[i]) \o Join(components, i + 1)

snake_to_camel(name) ==
    LET components == Split(name, 1, << >>)
    IN  components[1] \o Join(components, 2)

\* Field names (snake_case) and dictionary keys (camelCase), as characters.
FieldNames ==
    [
     price |->
        << "p", "r", "i", "c", "e" >>,
     entered_time |->
        << "e", "n", "t", "e", "r", "e", "d", "_", "t", "i", "m", "e" >>,
     close_time |->
        << "c", "l", "o", "s", "e", "_", "t", "i", "m", "e" >>,
     release_time |->
        << "r", "e", "l", "e", "a", "s", "e", "_", "t", "i", "m", "e" >>,
     cancel_time |->
        << "c", "a", "n", "c", "e", "l", "_", "t", "i", "m", "e" >>,
     order_type |->
        << "o", "r", "d", "e", "r", "_", "t", "y", "p", "e" >>,
     duration |->
        << "d", "u", "r", "a", "t", "i", "o", "n" >>,
     session |->
        << "s", "e", "s", "s", "i", "o", "n" >>,
     order_strategy_type |->
        << "o", "r", "d", "e", "r", "_", "s", "t", "r", "a", "t", "e", "g", "y", "_", "t", "y", "p", "e" >>,
     status |->
        << "s", "t", "a", "t", "u", "s" >>,
     complex_order_strategy_type |->
        << "c", "o", "m", "p", "l", "e", "x", "_", "o", "r", "d", "e", "r", "_", "s", "t", "r", "a", "t", "e", "g", "y", "_", "t", "y", "p", "e" >>,
     order_leg_collection |->
        << "o", "r", "d", "e", "r", "_", "l", "e", "g", "_", "c", "o", "l", "l", "e", "c", "t", "i", "o", "n" >>,
     order_activity_collection |->
        << "o", "r", "d", "e", "r", "_", "a", "c", "t", "i", "v", "i", "t", "y", "_", "c", "o", "l", "l", "e", "c", "t", "i", "o", "n" >>,
     instrument |->
        << "i", "n", "s", "t", "r", "u", "m", "e", "n", "t" >>,
     instruction |->
        << "i", "n", "s", "t", "r", "u", "c", "t", "i", "o", "n" >>,
     quantity |->
        << "q", "u", "a", "n", "t", "i", "t", "y" >>,
     position_effect |->
        << "p", "o", "s", "i", "t", "i", "o", "n", "_", "e", "f", "f", "e", "c", "t" >>,
     order_leg_type |->
        << "o", "r", "d", "e", "r", "_", "l", "e", "g", "_", "t", "y", "p", "e" >>,
     quantity_type |->
        << "q", "u", "a", "n", "t", "i", "t", "y", "_", "t", "y", "p", "e" >>,
     symbol |->
        << "s", "y", "m", "b", "o", "l" >>,
     asset_type |->
        << "a", "s", "s", "e", "t", "_", "t", "y", "p", "e" >>,
     expiration_date |->
        << "e", "x", "p", "i", "r", "a", "t", "i", "o", "n", "_", "d", "a", "t", "e" >>,
     option_deliverables |->
        << "o", "p", "t", "i", "o", "n", "_", "d", "e", "l", "i", "v", "e", "r", "a", "b", "l", "e", "s" >>,
     put_call |->
        << "p", "u", "t", "_", "c", "a", "l", "l" >>
    ]

KeyNames ==
    [
     orderType |->
        << "o", "r", "d", "e", "r", "T", "y", "p", "e" >>,
     session |->
        << "s", "e", "s", "s", "i", "o", "n" >>,
     duration |->
        << "d", "u", "r", "a", "t", "i", "o", "n" >>,
     orderStrategyType |->
        << "o", "r", "d", "e", "r", "S", "t", "r", "a", "t", "e", "g", "y", "T", "y", "p", "e" >>,
     price |->
        << "p", "r", "i", "c", "e" >>,
     enteredTime |->
        << "e", "n", "t", "e", "r", "e", "d", "T", "i", "m", "e" >>,
     orderId |->
        << "o", "r", "d", "e", "r", "I", "d" >>,
     status |->
        << "s", "t", "a", "t", "u", "s" >>,
     orderLegCollection |->
        << "o", "r", "d", "e", "r", "L", "e", "g", "C", "o", "l", "l", "e", "c", "t", "i", "o", "n" >>,
     instruction |->
        << "i", "n", "s", "t", "r", "u", "c", "t", "i", "o", "n" >>,
     quantity |->
        << "q", "u", "a", "n", "t", "i", "t", "y" >>,
     instrument |->
        << "i", "n", "s", "t", "r", "u", "m", "e", "n", "t" >>,
     symbol |->
        << "s", "y", "m", "b", "o", "l" >>,
     assetType |->
        << "a", "s", "s", "e", "t", "T", "y", "p", "e" >>,
     expirationDate |->
        << "e", "x", "p", "i", "r", "a", "t", "i", "o", "n", "D", "a", "t", "e" >>,
     comment |->
        << "c", "o", "m", "m", "e", "n", "t" >>
    ]

\* The fields of the dataclasses, trading_models.py lines 87-102, 312-320, 335-368.
InstrumentFields ==
    { << "s", "y", "m", "b", "o", "l" >>,
      << "a", "s", "s", "e", "t", "_", "t", "y", "p", "e" >>,
      << "c", "u", "s", "i", "p" >>,
      << "n", "e", "t", "_", "c", "h", "a", "n", "g", "e" >>,
      << "i", "n", "s", "t", "r", "u", "m", "e", "n", "t", "_", "i", "d" >>,
      << "d", "e", "s", "c", "r", "i", "p", "t", "i", "o", "n" >>,
      << "c", "l", "o", "s", "i", "n", "g", "_", "p", "r", "i", "c", "e" >>,
      << "s", "t", "a", "t", "u", "s" >>,
      << "t", "y", "p", "e" >>,
      << "e", "x", "p", "i", "r", "a", "t", "i", "o", "n", "_", "d", "a", "t", "e" >>,
      << "o", "p", "t", "i", "o", "n", "_", "d", "e", "l", "i", "v", "e", "r", "a", "b", "l", "e", "s" >>,
      << "o", "p", "t", "i", "o", "n", "_", "p", "r", "e", "m", "i", "u", "m", "_", "m", "u", "l", "t", "i", "p", "l", "i", "e", "r" >>,
      << "p", "u", "t", "_", "c", "a", "l", "l" >>,
      << "s", "t", "r", "i", "k", "e", "_", "p", "r", "i", "c", "e" >>,
      << "u", "n", "d", "e", "r", "l", "y", "i", "n", "g", "_", "s", "y", "m", "b", "o", "l" >>,
      << "u", "n", "d", "e", "r", "l", "y", "i", "n", "g", "_", "c", "u", "s", "i", "p" >> }

OrderLegFields ==
    { << "i", "n", "s", "t", "r", "u", "m", "e", "n", "t" >>,
      << "i", "n", "s", "t", "r", "u", "c", "t", "i", "o", "n" >>,
      << "q", "u", "a", "n", "t", "i", "t", "y" >>,
      << "p", "o", "s", "i", "t", "i", "o", "n", "_", "e", "f", "f", "e", "c", "t" >>,
      << "o", "r", "d", "e", "r", "_", "l", "e", "g", "_", "t", "y", "p", "e" >>,
      << "q", "u", "a", "n", "t", "i", "t", "y", "_", "t", "y", "p", "e" >>,
      << "l", "e", "g", "_", "i", "d" >>,
      << "d", "i", "v", "_", "c", "a", "p", "_", "g", "a", "i", "n", "s" >>,
      << "t", "o", "_", "s", "y", "m", "b", "o", "l" >> }

OrderFields ==
    { << "p", "r", "i", "c", "e" >>,
      << "e", "n", "t", "e", "r", "e", "d", "_", "t", "i", "m", "e" >>,
      << "c", "l", "o", "s", "e", "_", "t", "i", "m", "e" >>,
      << "r", "e", "l", "e", "a", "s", "e", "_", "t", "i", "m", "e" >>,
      << "o", "r", "d", "e", "r", "_", "t", "y", "p", "e" >>,
      << "d", "u", "r", "a", "t", "i", "o", "n" >>,
      << "s", "e", "s", "s", "i", "o", "n" >>,
      << "o", "r", "d", "e", "r", "_", "s", "t", "r", "a", "t", "e", "g", "y", "_", "t", "y", "p", "e" >>,
      << "o", "r", "d", "e", "r", "_", "i", "d" >>,
      << "a", "c", "c", "o", "u", "n", "t", "_", "n", "u", "m", "b", "e", "r" >>,
      << "s", "t", "a", "t", "u", "s" >>,
      << "q", "u", "a", "n", "t", "i", "t", "y" >>,
      << "f", "i", "l", "l", "e", "d", "_", "q", "u", "a", "n", "t", "i", "t", "y" >>,
      << "r", "e", "m", "a", "i", "n", "i", "n", "g", "_", "q", "u", "a", "n", "t", "i", "t", "y" >>,
      << "c", "o", "m", "p", "l", "e", "x", "_", "o", "r", "d", "e", "r", "_", "s", "t", "r", "a", "t", "e", "g", "y", "_", "t", "y", "p", "e" >>,
      << "r", "e", "q", "u", "e", "s", "t", "e", "d", "_", "d", "e", "s", "t", "i", "n", "a", "t", "i", "o", "n" >>,
      << "d", "e", "s", "t", "i", "n", "a", "t", "i", "o", "n", "_", "l", "i", "n", "k", "_", "n", "a", "m", "e" >>,
      << "o", "r", "d", "e", "r", "_", "l", "e", "g", "_", "c", "o", "l", "l", "e", "c", "t", "i", "o", "n" >>,
      << "o", "r", "d", "e", "r", "_", "a", "c", "t", "i", "v", "i", "t", "y", "_", "c", "o", "l", "l", "e", "c", "t", "i", "o", "n" >>,
      << "s", "t", "o", "p", "_", "p", "r", "i", "c", "e" >>,
      << "s", "t", "o", "p", "_", "p", "r", "i", "c", "e", "_", "l", "i", "n", "k", "_", "b", "a", "s", "i", "s" >>,
      << "s", "t", "o", "p", "_", "p", "r", "i", "c", "e", "_", "l", "i", "n", "k", "_", "t", "y", "p", "e" >>,
      << "s", "t", "o", "p", "_", "p", "r", "i", "c", "e", "_", "o", "f", "f", "s", "e", "t" >>,
      << "s", "t", "o", "p", "_", "t", "y", "p", "e" >>,
      << "p", "r", "i", "c", "e", "_", "l", "i", "n", "k", "_", "b", "a", "s", "i", "s" >>,
      << "p", "r", "i", "c", "e", "_", "l", "i", "n", "k", "_", "t", "y", "p", "e" >>,
      << "t", "a", "x", "_", "l", "o", "t", "_", "m", "e", "t", "h", "o", "d" >>,
      << "a", "c", "t", "i", "v", "a", "t", "i", "o", "n", "_", "p", "r", "i", "c", "e" >>,
      << "s", "p", "e", "c", "i", "a", "l", "_", "i", "n", "s", "t", "r", "u", "c", "t", "i", "o", "n" >>,
      << "c", "a", "n", "c", "e", "l", "a", "b", "l", "e" >>,
      << "e", "d", "i", "t", "a", "b", "l", "e" >>,
      << "c", "a", "n", "c", "e", "l", "_", "t", "i", "m", "e" >>,
      << "t", "a", "g" >>,
      << "s", "t", "a", "t", "u", "s", "_", "d", "e", "s", "c", "r", "i", "p", "t", "i", "o", "n" >> }

\* The keys Order.to_dict deletes when clean_keys is set, lines 388-396.
CleanKeys ==
    { << "e", "n", "t", "e", "r", "e", "d", "T", "i", "m", "e" >>,
      << "c", "l", "o", "s", "e", "T", "i", "m", "e" >>,
      << "r", "e", "l", "e", "a", "s", "e", "T", "i", "m", "e" >>,
      << "c", "a", "n", "c", "e", "l", "T", "i", "m", "e" >>,
      << "r", "e", "m", "a", "i", "n", "i", "n", "g", "Q", "u", "a", "n", "t", "i", "t", "y" >>,
      << "f", "i", "l", "l", "e", "d", "Q", "u", "a", "n", "t", "i", "t", "y" >>,
      << "q", "u", "a", "n", "t", "i", "t", "y" >>,
      << "p", "r", "i", "c", "e", "L", "i", "n", "k", "B", "a", "s", "i", "s" >>,
      << "p", "r", "i", "c", "e", "L", "i", "n", "k", "T", "y", "p", "e" >>,
      << "a", "c", "t", "i", "v", "a", "t", "i", "o", "n", "P", "r", "i", "c", "e" >>,
      << "s", "t", "o", "p", "P", "r", "i", "c", "e", "L", "i", "n", "k", "B", "a", "s", "i", "s" >>,
      << "s", "t", "o", "p", "P", "r", "i", "c", "e" >>,
      << "s", "t", "o", "p", "P", "r", "i", "c", "e", "O", "f", "f", "s", "e", "t" >>,
      << "s", "t", "o", "p", "T", "y", "p", "e" >>,
      << "d", "e", "s", "t", "i", "n", "a", "t", "i", "o", "n", "L", "i", "n", "k", "N", "a", "m", "e" >>,
      << "r", "e", "q", "u", "e", "s", "t", "e", "d", "D", "e", "s", "t", "i", "n", "a", "t", "i", "o", "n" >>,
      << "s", "t", "a", "t", "u", "s" >>,
      << "s", "t", "a", "t", "u", "s", "D", "e", "s", "c", "r", "i", "p", "t", "i", "o", "n" >>,
      << "t", "a", "g" >>,
      << "o", "r", "d", "e", "r", "A", "c", "t", "i", "v", "i", "t", "y", "C", "o", "l", "l", "e", "c", "t", "i", "o", "n" >> }

\* Enum members, types.py lines 123-272; the value of a member is its name.
Members(cls) ==
    CASE cls = "MarketSession" -> {"NORMAL", "AM", "PM", "SEAMLESS"}
      [] cls = "OrderType" ->
            {"MARKET", "LIMIT", "STOP", "STOP_LIMIT", "TRAILING_STOP", "CABINET",
             "NON_MARKETABLE", "MARKET_ON_CLOSE", "EXERCISE", "TRAILING_STOP_LIMIT",
             "NET_DEBIT", "NET_CREDIT", "NET_ZERO", "LIMIT_ON_CLOSE", "UNKNOWN"}
      [] cls = "OrderInstruction" ->
            {"BUY", "SELL", "BUY_TO_COVER", "SELL_SHORT", "BUY_TO_OPEN",
             "BUY_TO_CLOSE", "SELL_TO_OPEN", "SELL_TO_CLOSE", "EXCHANGE",
             "SELL_SHORT_EXEMPT"}
      [] cls = "OrderDuration" ->
            {"DAY", "GOOD_TILL_CANCEL", "FILL_OR_KILL", "IMMEDIATE_OR_CANCEL",
             "END_OF_WEEK", "END_OF_MONTH", "NEXT_END_OF_MONTH"}
      [] cls = "OrderStrategyType" ->
            {"SINGLE", "CANCEL", "RECALL", "PAIR", "FLATTEN", "TWO_DAY_SWAP",
             "BLAST_ALL", "OCO", "TRIGGER"}
      [] cls = "ComplexOrderStrategyType" ->
            {"NONE", "COVERED", "VERTICAL", "BACK_RATIO", "CALENDAR", "DIAGONAL",
             "STRADDLE", "STRANGLE", "COLLAR_SYNTHETIC", "BUTTERFLY", "CONDOR",
             "IRON_CONDOR", "VERTICAL_ROLL", "COLLAR_WITH_STOCK", "DOUBLE_DIAGONAL",
             "UNBALANCED_BUTTERFLY", "UNBALANCED_CONDOR", "UNBALANCED_IRON_CONDOR",
             "UNBALANCED_VERTICAL_ROLL", "MUTUAL_FUND_SWAP", "CUSTOM"}
      [] cls = "PositionEffect" -> {"OPENING", "CLOSING", "AUTOMATIC"}
      [] cls = "QuantityType" -> {"ALL_SHARES", "DOLLARS", "SHARES"}
      [] cls = "AssetType" ->
            {"EQUITY", "OPTION", "INDEX", "MUTUAL_FUND", "CASH_EQUIVALENT",
             "FIXED_INCOME", "CURRENCY", "COLLECTIVE_INVESTMENT"}
      [] cls = "OptionActionType" -> {"PUT", "CALL", "UNKNOWN"}
      [] cls = "OrderStatus" ->
            {"AWAITING_PARENT_ORDER", "AWAITING_CONDITION", "AWAITING_STOP_CONDITION",
             "AWAITING_MANUAL_REVIEW", "ACCEPTED", "AWAITING_UR_OUT",
             "PENDING_ACTIVATION", "QUEUED", "WORKING", "REJECTED", "PENDING_CANCEL",
             "CANCELED", "PENDING_REPLACE", "REPLACED", "FILLED", "EXPIRED", "NEW",
             "AWAITING_RELEASE_TIME", "PENDING_ACKNOWLEDGEMENT", "PENDING_RECALL",
             "UNKNOWN"}

Enums == {"MarketSession", "OrderType", "OrderInstruction", "OrderDuration",
          "OrderStrategyType", "ComplexOrderStrategyType", "PositionEffect",
          "QuantityType", "AssetType", "OptionActionType", "OrderStatus"}

Dataclasses == {"Instrument", "OrderLeg", "Order"}

\* AutoName.from_str, lines 108-114
from_str(cls, s) ==
    IF s.t = "NoneType" \/ s.t = cls THEN s
    ELSE IF s.t = "str" /\ s.v \in Members(cls) THEN Py(cls, s.v)
    ELSE Exc("ValueError")

\* The strings datetime.fromisoformat reads.
IsoStrings == {"2024-05-01T10:00:00"}

\* datetime.fromisoformat on a value of the dict
datetime_fromisoformat(s) ==
    IF s.t # "str" THEN Exc("TypeError")
    ELSE IF s.v \in IsoStrings THEN Py("datetime", s.v)
    ELSE Exc("ValueError")

\* utils.to_time, lines 110-120
to_time(dt) ==
    CASE dt.t \in {"NoneType", "datetime"} -> dt
      [] dt.t = "int" -> Py("datetime", dt.v)
      [] dt.t = "str" -> datetime_fromisoformat(dt)
      [] OTHER -> Exc("ValueError")

\* The value of an expression, computed once: Python evaluates an argument
\* or the right side of an assignment once, whatever the number of its uses.
The(S) == CHOOSE x \in S : TRUE

Get(d, key, default) == IF key \in DOMAIN d THEN d[key] ELSE default
Put(d, key, value) ==
    The({ [k \in DOMAIN dict \cup {key} |-> IF k = key THEN value ELSE dict[k]]
          : dict \in {d} })

\* {camel_to_snake(key): value for key, value in data.items()}
Converted(data) ==
    The({ [k \in {p[1] : p \in pairs} |->
              data.v[(CHOOSE p \in pairs : p[1] = k)[2]]]
          : pairs \in {{<< camel_to_snake(key), key >> : key \in DOMAIN data.v}} })

\* The first exception among the values of a dict about to become an object.
Failure(d) ==
    The({ IF \E k \in DOMAIN dict : Raised(dict[k])
          THEN dict[CHOOSE k \in DOMAIN dict : Raised(dict[k])]
          ELSE PyNone
          : dict \in {d} })

Fields(cls) ==
    CASE cls = "Instrument" -> InstrumentFields
      [] cls = "OrderLeg" -> OrderLegFields
      [] cls = "Order" -> OrderFields

\* The fields without a default, and the defaults of the others.
Required(cls) ==
    CASE cls = "Instrument" -> {FieldNames.symbol}
      [] cls = "OrderLeg" -> {FieldNames.instrument, FieldNames.instruction, FieldNames.quantity}
      [] cls = "Order" -> {FieldNames.price}

Default(cls, field) ==
    CASE cls = "Instrument" /\ field = FieldNames.asset_type -> Py("AssetType", "EQUITY")
      [] cls = "Order" /\ field = FieldNames.order_type -> Py("OrderType", "LIMIT")
      [] cls = "Order" /\ field = FieldNames.duration -> Py("OrderDuration", "DAY")
      [] cls = "Order" /\ field = FieldNames.session -> Py("MarketSession", "NORMAL")
      [] cls = "Order" /\ field = FieldNames.order_strategy_type ->
            Py("OrderStrategyType", "SINGLE")
      [] OTHER -> PyNone

\* cls(**converted_data): the generated __init__ of a dataclass refuses a
\* keyword that is no field and the absence of a field without default.
New(cls, converted_data) ==
    The({ IF Raised(Failure(kwargs)) THEN Failure(kwargs)
          ELSE IF ~(DOMAIN kwargs \subseteq Fields(cls)) THEN Exc("TypeError")
          ELSE IF ~(Required(cls) \subseteq DOMAIN kwargs) THEN Exc("TypeError")
          ELSE Py(cls, [f \in Fields(cls) |-> Get(kwargs, f, Default(cls, f))])
          : kwargs \in {converted_data} })

\* [F(item) for item in list]: the first exception among the items, if any
MapList(list, F(_)) ==
    The({ IF \E i \in DOMAIN items : Raised(items[i])
          THEN items[CHOOSE i \in DOMAIN items : Raised(items[i])]
          ELSE PyList(items)
          : items \in {[i \in DOMAIN list.v |-> F(list.v[i])]} })

\* Instrument.from_dict, lines 105-118
Instrument_from_dict(data) ==
    The({ LET expiration_time == Get(c0, FieldNames.expiration_date, PyNone)
              c1 == IF Truthy(expiration_time)
                    THEN Put(c0, FieldNames.expiration_date,
                             datetime_fromisoformat(expiration_time))
                    ELSE c0
          IN  IF FieldNames.asset_type \notin DOMAIN c1 THEN Exc("KeyError")
              ELSE New("Instrument",
                       Put(Put(c1, FieldNames.asset_type,
                               from_str("AssetType", c1[FieldNames.asset_type])),
                           FieldNames.put_call,
                           from_str("OptionActionType",
                                    Get(c1, FieldNames.put_call, PyNone))))
          : c0 \in {Converted(data)} })

\* OrderLeg.from_dict, lines 323-330
OrderLeg_from_dict(data) ==
    The({ IF FieldNames.instrument \notin DOMAIN c0
             \/ FieldNames.instruction \notin DOMAIN c0
          THEN Exc("KeyError")
          ELSE LET c1 == Put(c0, FieldNames.instrument,
                             Instrument_from_dict(c0[FieldNames.instrument]))
                   c2 == Put(c1, FieldNames.instruction,
                             from_str("OrderInstruction", c0[FieldNames.instruction]))
                   c3 == Put(c2, FieldNames.position_effect,
                             from_str("PositionEffect",
                                      Get(c0, FieldNames.position_effect, PyNone)))
                   c4 == Put(c3, FieldNames.order_leg_type,
                             from_str("AssetType",
                                      Get(c0, FieldNames.order_leg_type, PyNone)))
                   c5 == Put(c4, FieldNames.quantity_type,
                             from_str("QuantityType",
                                      Get(c0, FieldNames.quantity_type, PyNone)))
               IN  New("OrderLeg", c5)
          : c0 \in {Converted(data)} })

TimeKeys == {FieldNames.cancel_time, FieldNames.release_time, FieldNames.entered_time, FieldNames.close_time}

\* Order.from_dict, lines 371-383
Order_from_dict(data) ==
    The({ The({ The({
        IF {FieldNames.order_type, FieldNames.duration, FieldNames.session,
            FieldNames.order_strategy_type} \subseteq DOMAIN c3
        THEN LET c4 == Put(c3, FieldNames.order_type,
                           from_str("OrderType", c3[FieldNames.order_type]))
                 c5 == Put(c4, FieldNames.duration,
                           from_str("OrderDuration", c3[FieldNames.duration]))
                 c6 == Put(c5, FieldNames.session,
                           from_str("MarketSession", c3[FieldNames.session]))
                 c7 == Put(c6, FieldNames.order_strategy_type,
                           from_str("OrderStrategyType",
                                    c3[FieldNames.order_strategy_type]))
                 c8 == Put(c7, FieldNames.status,
                           from_str("OrderStatus", Get(c3, FieldNames.status, PyNone)))
                 c9 == Put(c8, FieldNames.complex_order_strategy_type,
                           from_str("ComplexOrderStrategyType",
                                    Get(c3, FieldNames.complex_order_strategy_type,
                                        PyNone)))
             IN  New("Order", c9)
        ELSE IF Raised(Failure(c3)) THEN Failure(c3) ELSE Exc("KeyError")
        : c3 \in {Put(Put(c1, FieldNames.order_leg_collection,
                          MapList(Get(c1, FieldNames.order_leg_collection,
                                      PyList(<< >>)),
                                  OrderLeg_from_dict)),
                      FieldNames.order_activity_collection, PyList(<< >>))} })
        : c1 \in {[k \in DOMAIN c0 \cup TimeKeys |->
                     IF k \in TimeKeys THEN to_time(Get(c0, k, PyNone))
                     ELSE c0[k]]} })
        : c0 \in {Converted(data)} })

\* utils.dataclass_to_dict, lines 33-52
RECURSIVE dataclass_to_dict(_)
dataclass_to_dict(instance) ==
    CASE instance.t = "NoneType" -> instance
      [] instance.t \in Enums -> PyStr(instance.v)
      [] instance.t = "list" ->
            PyList([i \in DOMAIN instance.v |-> dataclass_to_dict(instance.v[i])])
      [] instance.t \in Dataclasses ->
            LET pairs == {<< snake_to_camel(f), f >> : f \in DOMAIN instance.v}
            IN  PyDict([key \in {p[1] : p \in pairs} |->
                          dataclass_to_dict(
                              instance.v[(CHOOSE p \in pairs : p[1] = key)[2]])])
      [] OTHER -> instance

\* Order.to_dict, lines 385-398
to_dict(self, clean_keys) ==
    LET order_dict == dataclass_to_dict(self)
    IN  IF clean_keys
        THEN PyDict([key \in DOMAIN order_dict.v \ CleanKeys |-> order_dict.v[key]])
        ELSE order_dict

\* utils.is_subset_object, lines 55-83
RECURSIVE is_subset_object(_, _)
is_subset_object(base_obj, full_obj) ==
    IF base_obj.t # full_obj.t THEN FALSE
    ELSE IF base_obj.t = "dict"
    THEN \A key \in DOMAIN base_obj.v :
            /\ key \in DOMAIN full_obj.v
            /\ is_subset_object(base_obj.v[key], full_obj.v[key])
    ELSE IF base_obj.t = "list"
    THEN /\ Len(base_obj.v) = Len(full_obj.v)
         /\ \A i \in DOMAIN base_obj.v : is_subset_object(base_obj.v[i], full_obj.v[i])
    ELSE base_obj.v = full_obj.v

\* A dict written as the sequence of its items.
DictOf(items) ==
    PyDict([key \in {items[i][1] : i \in DOMAIN items} |->
              items[CHOOSE i \in DOMAIN items : items[i][1] = key][2]])

\* An item that may be absent.
Opt(present, key, value) == IF present THEN << << key, value >> >> ELSE << >>

\* The order dicts of the model: the four enum keys, the price, and optional
\* entered time, order id, status, an unknown key and up to MaxLegs legs.
InstrumentDict(expiration) ==
    DictOf(<< << KeyNames.symbol, PyStr("TSLA") >>, << KeyNames.assetType, PyStr("EQUITY") >> >>
           \o Opt(expiration # "absent", KeyNames.expirationDate, PyStr(expiration)))

LegDict(instr, expiration) ==
    DictOf(<< << KeyNames.instruction, PyStr(instr) >>, << KeyNames.quantity, Py("int", "1") >>,
              << KeyNames.instrument, InstrumentDict(expiration) >> >>)

LegDicts == {LegDict("BUY", e) : e \in {"absent", "2024-05-01T10:00:00"}}

OrderDict(order_type, has_price, entered, has_id, has_status, unknown, legs) ==
    DictOf(<< << KeyNames.orderType, PyStr(order_type) >>, << KeyNames.session, PyStr("NORMAL") >>,
              << KeyNames.duration, PyStr("DAY") >>,
              << KeyNames.orderStrategyType, PyStr("SINGLE") >>,
              << KeyNames.orderLegCollection, PyList(legs) >> >>
           \o Opt(has_price, KeyNames.price, PyStr("100.00"))
           \o Opt(entered # "absent", KeyNames.enteredTime, PyStr(entered))
           \o Opt(has_id, KeyNames.orderId, Py("int", "7"))
           \o Opt(has_status, KeyNames.status, PyStr("WORKING"))
           \o Opt(unknown, KeyNames.comment, PyStr("x")))

OrderDicts ==
    {OrderDict(ot, p, et, i, st, u, legs) :
        ot \in {"LIMIT", "limit"}, p \in BOOLEAN,
        et \in {"absent", "2024-05-01T10:00:00", "yesterday"},
        i \in BOOLEAN, st \in BOOLEAN, u \in BOOLEAN,
        legs \in UNION {[1..n -> LegDicts] : n \in 0..MaxLegs}}

OrderInit ==
    /\ NoAuthorizer
    /\ NoTradingApi
    /\ args \in [fn : {"Order.from_dict"}, d : OrderDicts]
    /\ result = NoCall

\* Order.from_dict(d), and to_dict() of the order if there is one.
OrderRoundTrip ==
    /\ args.fn = "Order.from_dict"
    /\ result = NoCall
    /\ \E order \in {Order_from_dict(args.d)} :
          result' = IF Raised(order)
                    THEN [fn |-> "Order.from_dict", exc |-> order.v, dict |-> PyNone]
                    ELSE [fn |-> "Order.from_dict", exc |-> "none",
                          dict |-> to_dict(order, FALSE)]
    /\ UNCHANGED args
    /\ UNCHANGED authVars
    /\ UNCHANGED apiVars

OrderSpec == OrderInit /\ [][OrderRoundTrip]_vars

\* C23: an order dictionary with camelCase keys that Order.from_dict accepts
\* is a sub-object of Order.from_dict(d).to_dict(): every key of d, at
\* every nesting level, is present with an equal value.
C23_OrderRoundTrip ==
    result # NoCall /\ result.fn = "Order.from_dict" /\ result.exc = "none" =>
        is_subset_object(args.d, result.dict)

-----------------------------------------------------------------------------
(* pyschwab/trading.py: TradingApi, its accounts and the requests it sends. *)
(* The brokerage knows the accounts in `numbers` (each with a hash) and     *)
(* lists in the user preference the accounts of `prefs`, at most one as the *)
(* primary one; the accountNumbers response may lack an account that the    *)
(* preference lists.  An account number that is None is "None".             *)

MaxRequests == 4
MaxStrike == 2

Accounts == {"A1", "A2"}
AccountOrder == << "A1", "A2" >>

\* What a caller may pass as an account number: a number the preference may
\* list, one it never lists, the empty string, or nothing.
AccountArgs == Accounts \cup {"A9", "", "None"}

\* hashValue of an account in the accountNumbers response
hashValue(account) ==
    CASE account = "A1" -> "H1" [] account = "A2" -> "H2" [] OTHER -> "None"

Brokers ==
    {b \in [numbers : {Accounts, {"A1"}},
            prefs : [Accounts -> {"absent", "plain", "primary"}]] :
        Cardinality({a \in Accounts : b.prefs[a] = "primary"}) <= 1}

\* Nothing sent: `last` is the account hash in the URL of the last request
\* ("-" when the URL has none), `delivered` the account numbers whose
\* trading data the brokerage has returned.
NoWire == [sent |-> 0, last |-> "-", delivered |-> {}]

\* `x or y` on account numbers
Or(x, y) == IF x \in {"None", ""} THEN y ELSE x

\* _init_accounts, lines 33-45: the info of every account of the preference,
\* its hash looked up in the accountNumbers response.
accounts_info(b) ==
    [a \in {n \in Accounts : b.prefs[n] # "absent"} |->
        [account_number |-> a,
         account_hash |-> IF a \in b.numbers THEN hashValue(a) ELSE "None",
         is_primary |-> b.prefs[a] = "primary"]]

\* The number the loop of _init_accounts leaves in primary_account_num: that
\* of the last primary account of the list, None if there is none.
RECURSIVE primary_account_num(_, _)
primary_account_num(info, i) ==
    IF i = 0 THEN "None"
    ELSE IF AccountOrder[i] \in DOMAIN info /\ info[AccountOrder[i]].is_primary
    THEN AccountOrder[i]
    ELSE primary_account_num(info, i - 1)

\* TradingApi.__init__, lines 20-29, when both requests are answered
TradingApiInit(b) ==
    [constructed |-> TRUE,
     current_account_num |-> primary_account_num(accounts_info(b), Len(AccountOrder)),
     primary_account_num |-> primary_account_num(accounts_info(b), Len(AccountOrder)),
     securities_accounts |-> [a \in {} |-> a],
     accounts_info |-> accounts_info(b)]

\* A variant that does not look the account up.
get_account_hashUnchecked(a, account_num) ==
    [exc |-> IF Or(account_num, a.current_account_num) \in {"None", ""}
             THEN "ValueError" ELSE "none",
     hash |-> hashValue(Or(account_num, a.current_account_num))]

\* _get_account_hash and get_account_info, lines 71-77 and 50-55
get_account_hash(a, account_num) ==
    LET num == Or(account_num, a.current_account_num)
    IN  IF num \in {"None", ""} THEN [exc |-> "ValueError", hash |-> "None"]
        ELSE IF num \notin DOMAIN a.accounts_info
        THEN [exc |-> "ValueError", hash |-> "None"]
        ELSE [exc |-> "none", hash |-> a.accounts_info[num].account_hash]

\* The brokerage answers a request for an account only for a hash it gave out.
Answers(hash, failure, st) ==
    Request(failure, st) = "response" => \E a \in broker.numbers : hashValue(a) = hash

\* What the caller sees of request(...)
Outcome(failure, st) ==
    IF Request(failure, st) = "response" THEN "none" ELSE Request(failure, st)

\* A variant that forgets the accounts cached before.
StoreAccountOnly(cache, account) ==
    [n \in {account.account_number} |-> account]

\* self.securities_accounts[account.account_number] = account
StoreAccount(cache, account) ==
    [n \in DOMAIN cache \cup {account.account_number} |->
        IF n = account.account_number THEN account ELSE cache[n]]

RECURSIVE StoreAll(_, _)
StoreAll(cache, numbers) ==
    IF numbers = {} THEN cache
    ELSE LET n == CHOOSE n \in numbers : TRUE
         IN  StoreAll(StoreAccount(cache, [account_number |-> n]), numbers \ {n})

ApiInit ==
    /\ NoAuthorizer
    /\ args = NoCall
    /\ result = NoCall
    /\ api = [constructed |-> FALSE]
    /\ broker \in Brokers
    /\ wire = NoWire

\* TradingApi(access_token, trading_config): the accountNumbers request and
\* the userPreference request, either of which may fail.
NewTradingApi ==
    /\ ~api.constructed
    /\ wire.sent = 0
    /\ \E failure \in Failures, st \in Statuses, n \in 1..2 :
          /\ wire' = [wire EXCEPT !.sent = IF Request(failure, st) = "response"
                                           THEN 2 ELSE n]
          /\ result' = [fn |-> "TradingApi", exc |-> Outcome(failure, st)]
          /\ api' = IF Request(failure, st) = "response"
                    THEN TradingApiInit(broker) ELSE api
    /\ UNCHANGED << args, broker >>
    /\ UNCHANGED authVars

\* set_current_account_number(account_number), lines 57-59
SetCurrentAccountNumber ==
    /\ api.constructed
    /\ \E account_number \in AccountArgs :
          /\ api' = [api EXCEPT !.current_account_num =
                                    Or(account_number, api.primary_account_num)]
          /\ args' = [fn |-> "set_current_account_number",
                      account_number |-> account_number]
    /\ result' = [fn |-> "set_current_account_number", exc |-> "none"]
    /\ UNCHANGED << broker, wire >>
    /\ UNCHANGED authVars

\* An operation on the current account that changes nothing in the object:
\* _get_account_hash(), then one request.
Scoped(op, failure, st) ==
    /\ api.constructed
    /\ wire.sent < MaxRequests
    /\ LET h == get_account_hash(api, "None")
       IN  IF h.exc # "none"
           THEN /\ result' = [fn |-> op, exc |-> h.exc]
                /\ wire' = wire
           ELSE /\ Answers(h.hash, failure, st)
                /\ result' = [fn |-> op, exc |-> Outcome(failure, st)]
                /\ wire' = [wire EXCEPT !.sent = @ + 1,
                                        !.last = h.hash]
    /\ UNCHANGED << args, api, broker >>
    /\ UNCHANGED authVars

\* fetch_trading_data, lines 83-90
FetchTradingData ==
    /\ api.constructed
    /\ wire.sent < MaxRequests
    /\ \E failure \in Failures, st \in Statuses :
         LET h == get_account_hash(api, "None")
             account == [account_number |->
                            CHOOSE a \in broker.numbers : hashValue(a) = h.hash]
         IN  IF h.exc # "none"
             THEN /\ result' = [fn |-> "fetch_trading_data", exc |-> h.exc]
                  /\ UNCHANGED << wire, api >>
             ELSE /\ Answers(h.hash, failure, st)
                  /\ result' = [fn |-> "fetch_trading_data",
                                exc |-> Outcome(failure, st)]
                  /\ wire' = [wire EXCEPT
                                !.sent = @ + 1,
                                !.last = h.hash,
                                !.delivered =
                                    IF Outcome(failure, st) = "none"
                                    THEN @ \cup {account.account_number} ELSE @]
                  /\ api' = IF Outcome(failure, st) = "none"
                            THEN [api EXCEPT !.securities_accounts =
                                                 StoreAccount(@, account)]
                            ELSE api
    /\ UNCHANGED << args, broker >>
    /\ UNCHANGED authVars

\* fetch_all_trading_data, lines 92-101: one request for all accounts
FetchAllTradingData ==
    /\ api.constructed
    /\ wire.sent < MaxRequests
    /\ \E failure \in Failures, st \in Statuses :
          /\ result' = [fn |-> "fetch_all_trading_data", exc |-> Outcome(failure, st)]
          /\ wire' = [wire EXCEPT
                        !.sent = @ + 1,
                        !.last = "-",
                        !.delivered = IF Outcome(failure, st) = "none"
                                      THEN @ \cup broker.numbers ELSE @]
          /\ api' = IF Outcome(failure, st) = "none"
                    THEN [api EXCEPT !.securities_accounts =
                                         StoreAll(@, broker.numbers)]
                    ELSE api
    /\ UNCHANGED << args, broker >>
    /\ UNCHANGED authVars

\* get_orders, lines 111-118
GetOrders ==
    \E failure \in Failures, st \in Statuses : Scoped("get_orders", failure, st)

\* place_order, lines 142-145
PlaceOrder ==
    \E failure \in Failures, st \in Statuses : Scoped("place_order", failure, st)

\* cancel_order, lines 205-207
CancelOrder ==
    \E failure \in Failures, st \in Statuses :
        Scoped("cancel_order", failure, st)

\* replace_order, lines 209-217: an order without id is refused before the
\* account is looked up.
ReplaceOrder ==
    \/ /\ api.constructed
       /\ result' = [fn |-> "replace_order", exc |-> "ValueError"]
       /\ UNCHANGED << args, api, broker, wire >>
       /\ UNCHANGED authVars
    \/ \E failure \in Failures, st \in Statuses :
          Scoped("replace_order", failure, st)

\* get_transactions, lines 236-243
GetTransactions ==
    \E failure \in Failures, st \in Statuses :
        Scoped("get_transactions", failure, st)

ApiNext ==
    \/ NewTradingApi
    \/ SetCurrentAccountNumber
    \/ FetchTradingData
    \/ FetchAllTradingData
    \/ GetOrders
    \/ PlaceOrder
    \/ CancelOrder
    \/ ReplaceOrder
    \/ GetTransactions

ApiSpec == ApiInit /\ [][ApiNext]_vars

(* trade_spread *)

Strikes == UNION {[1..n -> 1..MaxStrike] : n \in 0..3}

Reverse(list) == [i \in 1..Len(list) |-> list[Len(list) + 1 - i]]

\* trade_spread, lines 187-190: strikes.reverse() or strikes.sort()
SpreadStrikes(buy_sell, call_put, strikes) ==
    IF buy_sell # call_put THEN Reverse(strikes)
    ELSE SortSeq(strikes, LAMBDA a, b : a < b)

\* trade_spread, lines 191-200: the two legs; the option symbol of a leg is
\* told by its strike.
SpreadLegs(buy_sell, call_put, strikes) ==
    LET instructions == << "BUY_TO_OPEN", "SELL_TO_OPEN" >>
    IN  [i \in 1..2 |->
            [instruction |-> instructions[i],
             strike |-> SpreadStrikes(buy_sell, call_put, strikes)[i]]]

NoOrder == [order_type |-> "None", legs |-> << >>]

\* A TradingApi that was constructed, and the arguments of one trade_spread.
SpreadInit ==
    /\ NoAuthorizer
    /\ broker \in Brokers
    /\ api = TradingApiInit(broker)
    /\ wire = [NoWire EXCEPT !.sent = 2]
    /\ args \in [fn : {"trade_spread"}, buy_sell : BOOLEAN, call_put : BOOLEAN,
                 strikes : Strikes]
    /\ result = NoCall

\* trade_spread, lines 182-203, with the place_order it ends in
TradeSpread ==
    /\ args.fn = "trade_spread"
    /\ result = NoCall
    /\ \E failure \in Failures, st \in Statuses :
         LET h == get_account_hash(api, "None")
             order == [order_type |-> IF args.buy_sell THEN "NET_DEBIT"
                                      ELSE "NET_CREDIT",
                       legs |-> SpreadLegs(args.buy_sell, args.call_put, args.strikes)]
         IN  IF Len(args.strikes) # 2 \/ h.exc # "none"
             THEN /\ result' = [fn |-> "trade_spread", exc |-> "ValueError",
                                order |-> NoOrder]
                  /\ wire' = wire
             ELSE /\ Answers(h.hash, failure, st)
                  /\ result' = [fn |-> "trade_spread", exc |-> Outcome(failure, st),
                                order |-> order]
                  /\ wire' = [wire EXCEPT !.sent = @ + 1, !.last = h.hash]
    /\ UNCHANGED << args, api, broker >>
    /\ UNCHANGED authVars

SpreadSpec == SpreadInit /\ [][TradeSpread]_vars

-----------------------------------------------------------------------------
(* Claims about TradingApi *)

\* The account numbers in the cache of securities accounts.
Cached(a) == DOMAIN a.securities_accounts

\* C24: the cache of securities accounts is empty after construction; after
\* any sequence of fetch_trading_data and fetch_all_trading_data it holds
\* exactly one entry for every account number whose data the brokerage has
\* returned, under that number; no entry is ever removed, and a fetch that
\* returns no new account leaves the number of entries as it was.
C24_CacheIsTheAccountsFetched ==
    [][/\ ~api.constructed /\ api'.constructed => Cached(api') = {}
       /\ api'.constructed =>
            /\ Cached(api') = wire'.delivered
            /\ \A n \in Cached(api') : api'.securities_accounts[n].account_number = n
       /\ api.constructed =>
            /\ Cached(api) \subseteq Cached(api')
            /\ wire'.delivered = wire.delivered =>
                  Cardinality(Cached(api')) = Cardinality(Cached(api))]_vars

\* Both accounts are cached and the last of at least two fetches was of one
\* account.
C24_Witness ==
    /\ api.constructed /\ Cached(api) = Accounts
    /\ result.fn = "fetch_trading_data" /\ result.exc = "none"
    /\ wire.sent >= 4

\* The operations on the current account.
ScopedOps == {"fetch_trading_data", "get_orders", "place_order", "cancel_order",
              "replace_order", "get_transactions"}

\* The primary account of the user preference, None if it has none.
PrimaryAccount ==
    IF \E a \in Accounts : broker.prefs[a] = "primary"
    THEN CHOOSE a \in Accounts : broker.prefs[a] = "primary"
    ELSE "None"

\* The account the caller chose last: the argument of the last
\* set_current_account_number, the primary account if there was no call or
\* the argument was missing or empty.
ChosenAccount ==
    IF args = NoCall \/ args.account_number \in {"None", ""} THEN PrimaryAccount
    ELSE args.account_number

KnownAccounts == {a \in Accounts : broker.prefs[a] # "absent"}

\* The hash the brokerage reported for an account, None if it reported none.
HashOf(account) == IF account \in broker.numbers THEN hashValue(account) ELSE "None"

\* C25: a new TradingApi has the primary account as its current account;
\* set_current_account_number(x) makes x the current account, and the
\* primary account when x is missing; every operation on the current account
\* that sends a request sends it for the hash of the account chosen last,
\* and raises without sending anything when no account is chosen or the
\* chosen number is not an account of the user.
C25_CurrentAccountScopesOperations ==
    [][/\ ~api.constructed /\ api'.constructed =>
            /\ api'.current_account_num = PrimaryAccount
            /\ api'.primary_account_num = PrimaryAccount
       /\ api.constructed /\ result'.fn = "set_current_account_number" =>
            /\ api'.current_account_num = ChosenAccount'
            /\ wire' = wire
       /\ api.constructed /\ result'.fn \in ScopedOps =>
            /\ wire' # wire =>
                  /\ wire'.sent = wire.sent + 1
                  /\ wire'.last = HashOf(ChosenAccount)
            /\ ChosenAccount \notin KnownAccounts =>
                  /\ result'.exc = "ValueError"
                  /\ wire' = wire
            /\ ChosenAccount \in KnownAccounts /\ result'.fn # "replace_order" =>
                  wire'.sent = wire.sent + 1]_vars

\* An order was placed for the second account after it was made current,
\* while the first account is the primary one.
C25_Witness ==
    /\ api.constructed /\ broker.prefs["A1"] = "primary"
    /\ args # NoCall /\ args.account_number = "A2"
    /\ result.fn = "place_order" /\ result.exc = "none"
    /\ wire.last = "H2"

\* What the documentation expects of the strikes: the higher one first for
\* bear call and bull put spreads, the lower one first otherwise.
ExpectedStrikes(buy_sell, call_put, strikes) ==
    IF buy_sell # call_put THEN Reverse(SortSeq(strikes, LAMBDA a, b : a < b))
    ELSE SortSeq(strikes, LAMBDA a, b : a < b)

\* C28: trade_spread gives the BUY_TO_OPEN leg the lower strike and the
\* SELL_TO_OPEN leg the higher one when buy_sell XOR call_put is false, and
\* the other way round when it is true, whatever the order of the two
\* strikes in the list; a list of another length raises and no order is
\* placed.
C28_SpreadLegsIgnoreStrikeOrder ==
    result # NoCall /\ result.fn = "trade_spread" =>
        /\ Len(args.strikes) # 2 =>
              result.exc = "ValueError" /\ result.order = NoOrder /\ wire.sent = 2
        /\ result.exc = "none" =>
              /\ Len(args.strikes) = 2
              /\ result.order.legs[1].instruction = "BUY_TO_OPEN"
              /\ result.order.legs[2].instruction = "SELL_TO_OPEN"
              /\ \A i \in 1..2 :
                    result.order.legs[i].strike =
                        ExpectedStrikes(args.buy_sell, args.call_put, args.strikes)[i]

-----------------------------------------------------------------------------
(* pyschwab/utils.py: next_sunday.  A datetime is the number of its day,    *)
(* day 0 being a Monday, and its hour.                                      *)

MaxDay == 60

Hours == {0, 12, 23}

\* datetime.weekday(): Monday is 0, Sunday is 6
weekday(dt) == dt.day % 7

\* dt + timedelta(days=n)
PlusDays(dt, n) == [dt EXCEPT !.day = @ + n]

\* A variant without the correction for a Sunday.
next_sundaySameDay(today) == PlusDays(today, (6 - weekday(today)) % 7)

\* next_sunday, lines 123-127, `today` being datetime.now()
next_sunday(today) ==
    LET days_until_sunday == (6 - weekday(today)) % 7
    IN  PlusDays(today, IF days_until_sunday = 0 THEN 7 ELSE days_until_sunday)

SundayInit ==
    /\ NoAuthorizer
    /\ NoTradingApi
    /\ args \in [fn : {"next_sunday"}, now : [day : 0..MaxDay, hour : Hours]]
    /\ result = NoCall

\* next_sunday() called at the time args.now
NextSunday ==
    /\ args.fn = "next_sunday"
    /\ result = NoCall
    /\ result' = [fn |-> "next_sunday", value |-> next_sunday(args.now)]
    /\ UNCHANGED args
    /\ UNCHANGED authVars
    /\ UNCHANGED apiVars

SundaySpec == SundayInit /\ [][NextSunday]_vars

\* C26: whatever the weekday of today, next_sunday() is a Sunday strictly
\* after today, between 1 and 7 days ahead, and 7 days ahead when today is a
\* Sunday.
C26_NextSundayIsAhead ==
    result # NoCall /\ result.fn = "next_sunday" =>
        /\ result.value.day % 7 = 6
        /\ result.value.day > args.now.day
        /\ result.value.day - args.now.day \in 1..7
        /\ result.value.hour = args.now.hour
        /\ args.now.day % 7 = 6 => result.value.day = args.now.day + 7

\* Called on a Sunday, it gives the Sunday a week later.
C26_Witness ==
    /\ result # NoCall /\ result.fn = "next_sunday"
    /\ args.now.day = 13
    /\ result.value.day = 20

-----------------------------------------------------------------------------
(* Two managers on one token path *)

\* The record both managers find: written at instant 0 with the first TTL.
SharedRecord == InitRecord({}, 1, isoformat(0), isoformat(0))

RaceInit ==
    /\ clock = MaxStamp
    /\ file = File("json", SharedRecord)
    /\ live = Procs
    /\ NoManager
    /\ args = NoCall
    /\ result = NoCall
    /\ NoTradingApi

\* The load, grant and save steps of the managers, and the passing of time
RaceNext ==
    \/ Tick
    \/ \E m \in Procs : Configure(m, "absent")
    \/ \E m \in Procs : Construct(m)
    \/ \E m \in Procs, f \in Failures, st \in Statuses : RespondError(m, f, st)
    \/ \E m \in Procs, st \in Statuses, w \in BOOLEAN : RespondJson(m, st, w)
    \/ \E m \in Procs : Write(m)
    \/ \E m \in Procs : Stop(m)

RaceSpec == RaceInit /\ [][RaceNext]_vars

\* The three tokens of a grant response
GrantedTokens == {"refresh_token", "access_token", "id_token"}

\* The place of a response in the order the authorization server issued them
Number(body) ==
    CHOOSE n \in 0..issued :
        \E k \in GrantedTokens \cap body.has : body[k].n = n

\* The record holds every token the response carried.
Holds(data, body) ==
    \A k \in GrantedTokens \cap body.has : data[k] = body[k]

\* Manager m saved the tokens of its grant response and the file now holds
\* tokens issued before them only.
LostUpdate(m) ==
    /\ pc[m] = "done"
    /\ GrantedTokens \cap resp[m].has # {}
    /\ file.kind = "json"
    /\ \A k \in GrantedTokens : file.data[k].n < Number(resp[m])

\* C27: the tokens a manager saved are replaced in the file by tokens issued
\* earlier only when another manager was constructed on the same token path;
\* with one manager on the path the file never falls behind a completed save.
C27_LostUpdateNeedsSecondManager ==
    \A m \in Procs :
        LostUpdate(m) => \E o \in Procs \ {m} : runs[o] > 0

\* Two managers loaded the same record with a stale access token and a fresh
\* refresh token, both were granted tokens and both saved; the file holds the
\* tokens issued first and the tokens issued later are in no file.
C27_Witness ==
    \E m \in Procs : \E o \in Procs \ {m} :
        /\ pc[m] = "done" /\ pc[o] = "done"
        /\ loaded[m] = File("json", SharedRecord)
        /\ loaded[o] = File("json", SharedRecord)
        /\ log[m] = << "refresh_token", "persist" >>
        /\ log[o] = << "refresh_token", "persist" >>
        /\ 1 <= Number(resp[o])
        /\ Number(resp[o]) < Number(resp[m])
        /\ "access_token" \in resp[o].has
        /\ Holds(file.data, resp[o])
        /\ LostUpdate(m)

-----------------------------------------------------------------------------
(* A token path that starts without a file *)

FreshInit ==
    /\ clock = MaxStamp
    /\ file = MissingFile
    /\ live = {1}
    /\ NoManager
    /\ args = NoCall
    /\ result = NoCall
    /\ NoTradingApi

FreshSpec == FreshInit /\ [][Next]_vars

\* This step is m's json.dump: the record of its save reaches the file.
Writes(m) ==
    /\ pc[m] = "write"
    /\ pc'[m] = "done"

\* The grant m's save follows is a full authorization.
AfterFullAuthorization(m) == log[m][Len(log[m])] = "authorization_code"

\* C29: from no file and with a clock that never goes back, every record a
\* manager writes, after full authorizations and silent refreshes in any
\* order, has refresh_token_updated <= access_token_updated, and the two are
\* equal exactly when the record is written by a full authorization.
C29_RefreshStampNotAfterAccessStamp ==
    [][\A m \in live :
        Writes(m) =>
            LET r == file'.data.refresh_token_updated
                a == file'.data.access_token_updated
            IN  /\ file'.kind = "json"
                /\ r.form = "T" /\ a.form = "T"
                /\ 0 <= r.t
                /\ r.t <= a.t
                /\ (r.t = a.t) <=> AfterFullAuthorization(m)]_vars

\* A silent refresh wrote the record: its refresh stamp is the one of the
\* full authorization that created the file, its access stamp is later.
C29_Witness ==
    \E m \in live :
        /\ pc[m] = "done"
        /\ log[m] = << "refresh_token", "persist" >>
        /\ loaded[m].kind = "json"
        /\ file.kind = "json"
        /\ file.data.refresh_token_updated = loaded[m].data.refresh_token_updated
        /\ file.data.refresh_token_updated.t < file.data.access_token_updated.t
        /\ file.data.access_token_updated.t = saveNow[m]

-----------------------------------------------------------------------------
(* Markers out of order *)

\* Both markers occur in u and the first '%40&' comes before the first
\* 'code=': nothing lies between the end of 'code=' and that '%40&'.
MarkersOutOfOrder(u) ==
    /\ ~LacksMarker(u)
    /\ Least(Places(u, "%40&")) < Least(Places(u, "code="))

\* C30: when the first '%40&' of the consent URL lies before the end of the
\* first 'code=', full authorization fails and no token-endpoint request is
\* sent; no authorization_code grant carries an empty or cut code such as "@".
C30_OutOfOrderUrlIsRejected ==
    [][\A m \in live :
        UsesUrl(m) /\ MarkersOutOfOrder(gotUrl[m]) =>
            /\ pc'[m] = "raised"
            /\ req'[m] = NoRequest
            /\ log'[m] = log[m]]_vars

====
